---- MODULE Spec2Model ----
(***************************************************************************)
(* A model of layouteditorwrapper/path.py (co-planar waveguide geometry)   *)
(* and of the part of layouteditorwrapper/wrapper.py it draws through.     *)
(*                                                                         *)
(* Numbers.  Python floats are modelled by exact rationals <<n, d>> in     *)
(* lowest terms with d > 0; <<1, 0>> (NaR) is the result of a division by  *)
(* zero and propagates through arithmetic.  Angles are rationals in units  *)
(* of pi.  A point is a record [c, r, phi] standing for                    *)
(*      c + r * (cos(phi * pi), sin(phi * pi))                             *)
(* so that the points of an arc keep their centre, radius and angle; a     *)
(* plain (x, y) point has r = 0.  Outlines are taken from an integer grid  *)
(* with axis-parallel segments wherever the path turns, so every turn is   *)
(* a multiple of pi/2 and the trigonometry of smooth_path is exact.        *)
(***************************************************************************)
EXTENDS Integers, Sequences, FiniteSets, Bags, TLC

\* ------------------------------------------------------------------------
\* Bounds of the model
\* ------------------------------------------------------------------------
\* Largest coordinate of the grid the outlines given to constructors come from.
GridMax == 2
\* Largest number of points in an outline given to a constructor.
MaxOutlineLen == 3
\* Largest number of elements in a Path.
MaxPathLen == 2
\* Largest number of increments given to from_increments.
MaxIncrements == 2
\* Largest number of calls of draw made on one element.
MaxDraws == 2
\* Largest database value given to the unit conversions.
MaxValue == 2
\* Largest number of Drawing objects taken from one Layout.
MaxDrawings == 2
\* Largest number of cells added to the drawing of a Layout.
MaxCells == 3
\* Largest number of layouts, and of schematics, that pylayout.project hands out.
MaxWindows == 2

\* ------------------------------------------------------------------------
\* Exact rational arithmetic (the floats of the code)
\* ------------------------------------------------------------------------
Abs(i) == IF i < 0 THEN -i ELSE i

RECURSIVE Gcd(_, _)
Gcd(a, b) == IF b = 0 THEN a ELSE Gcd(b, a % b)

NaR == <<1, 0>>

IsNaR(a) == a[2] = 0

\* The rational n/d in lowest terms; d = 0 gives NaR.
Q(n, d) ==
    IF d = 0 THEN NaR
    ELSE LET s == IF d < 0 THEN -1 ELSE 1
             g == Gcd(Abs(n), Abs(d))
         IN  <<(s * n) \div g, (s * d) \div g>>

I(n) == <<n, 1>>

Zero == I(0)

RAdd(a, b) == IF IsNaR(a) \/ IsNaR(b) THEN NaR
              ELSE Q(a[1] * b[2] + b[1] * a[2], a[2] * b[2])

RNeg(a) == IF IsNaR(a) THEN NaR ELSE <<-a[1], a[2]>>

RSub(a, b) == RAdd(a, RNeg(b))

RMul(a, b) == IF IsNaR(a) \/ IsNaR(b) THEN NaR
              ELSE Q(a[1] * b[1], a[2] * b[2])

\* True division (from __future__ import division); x / 0 is NaR.
RDiv(a, b) == IF IsNaR(a) \/ IsNaR(b) THEN NaR
              ELSE Q(a[1] * b[2], a[2] * b[1])

RLt(a, b) == ~IsNaR(a) /\ ~IsNaR(b) /\ a[1] * b[2] < b[1] * a[2]

RLe(a, b) == ~IsNaR(a) /\ ~IsNaR(b) /\ a[1] * b[2] <= b[1] * a[2]

RAbs(a) == IF IsNaR(a) THEN NaR ELSE <<Abs(a[1]), a[2]>>

\* np.sign
RSign(a) == IF a[1] > 0 THEN 1 ELSE IF a[1] < 0 THEN -1 ELSE 0

\* np.floor and np.ceil, as integers (\div rounds towards minus infinity).
RFloor(a) == a[1] \div a[2]

RCeil(a) == -((-a[1]) \div a[2])

\* np.round: to the nearest integer, a tie to the even one.
RRound(a) ==
    LET f == RFloor(a)
        twice == RSub(RMul(I(2), a), I(2 * f))   \* 2 * (a - f), in [0, 2)
    IN  IF RLt(twice, I(1)) THEN f
        ELSE IF RLt(I(1), twice) THEN f + 1
        ELSE IF f % 2 = 0 THEN f ELSE f + 1

\* The least k with k >= pi * a for a rational a >= 0 (np.ceil of a multiple
\* of pi).  pi lies strictly between 333/106 and 355/113 and is irrational;
\* for the small a of this model no integer lies between the two bounds.
CeilPi(a) ==
    IF a[1] = 0 THEN 0 ELSE RFloor(RMul(Q(333, 106), a)) + 1

\* Angles, in units of pi.  NormAngle brings an angle into [0, 2).
NormAngle(a) == IF IsNaR(a) THEN NaR ELSE RSub(a, I(2 * RFloor(RDiv(a, I(2)))))

\* An angle that is a whole number of quarter turns, where cos and sin are
\* 0, 1 or -1.
IsQuarterTurn(a) == ~IsNaR(a) /\ RMul(I(2), a)[2] = 1

\* An odd multiple of pi/4, where |cos| = |sin| = sqrt(2)/2.
IsOddEighth(a) == ~IsNaR(a) /\ RMul(I(4), a)[2] = 1 /\ RMul(I(4), a)[1] % 2 # 0

\* np.cos and np.sin at a whole number of quarter turns (NaR elsewhere: such
\* values stay inside a point record and are never evaluated).
CosPi(a) ==
    IF ~IsQuarterTurn(a) THEN NaR
    ELSE LET k == RMul(I(2), NormAngle(a))[1]
         IN  IF k = 0 THEN I(1) ELSE IF k = 2 THEN I(-1) ELSE Zero

SinPi(a) == CosPi(RSub(a, Q(1, 2)))

\* The signs of cos and sin at an odd multiple of pi/4.
CosSignEighth(a) ==
    LET k == RMul(I(4), NormAngle(a))[1] IN IF k \in {1, 7} THEN 1 ELSE -1

SinSignEighth(a) ==
    LET k == RMul(I(4), NormAngle(a))[1] IN IF k \in {1, 3} THEN 1 ELSE -1

\* cos(theta) / cos(half) and sin(theta) / cos(half): the factors of
\* h * cos(theta) and h * sin(theta) for h = radius / cos(half).  At a right
\* angle turn half = +-1/4 and theta is an odd multiple of 1/4, so the
\* quotient is +-1; at a reversal cos(half) = 0 and the quotient is NaR.
CosOverCos(theta, half) ==
    IF IsQuarterTurn(half) THEN RDiv(CosPi(theta), CosPi(half))
    ELSE IF IsOddEighth(half) /\ IsOddEighth(theta)
         THEN I(CosSignEighth(theta) * CosSignEighth(half))
    ELSE NaR

SinOverCos(theta, half) ==
    IF IsQuarterTurn(half) THEN RDiv(SinPi(theta), CosPi(half))
    ELSE IF IsOddEighth(half) /\ IsOddEighth(theta)
         THEN I(SinSignEighth(theta) * CosSignEighth(half))
    ELSE NaR

\* np.arctan2(y, x) in units of pi, in (-1, 1], for the eight directions of
\* the grid; arctan2(0, 0) = 0.  NaR for any other direction.
ArcTan2(y, x) ==
    IF IsNaR(x) \/ IsNaR(y) THEN NaR
    ELSE LET sx == RSign(x)
             sy == RSign(y)
         IN  IF sy = 0 THEN (IF sx < 0 THEN I(1) ELSE Zero)
             ELSE IF sx = 0 THEN Q(sy, 2)
             ELSE IF RAbs(x) = RAbs(y)
                  THEN (IF sx > 0 THEN Q(sy, 4) ELSE Q(3 * sy, 4))
             ELSE NaR

\* ------------------------------------------------------------------------
\* Points (numpy arrays of shape (2,)) and vectors
\* ------------------------------------------------------------------------
\* The point (x, y) for rationals x, y.
Pt(x, y) == [c |-> <<x, y>>, r |-> Zero, phi |-> Zero]

\* The point (x, y) for integers x, y.
P(x, y) == Pt(I(x), I(y))

\* centre + radius * np.array([np.cos(phi), np.sin(phi)]): evaluated where cos
\* and sin are exact, kept in polar form elsewhere.
Polar(centre, radius, phi) ==
    IF IsQuarterTurn(phi) \/ radius = Zero
    THEN Pt(RAdd(centre[1], RMul(radius, IF radius = Zero THEN Zero ELSE CosPi(phi))),
            RAdd(centre[2], RMul(radius, IF radius = Zero THEN Zero ELSE SinPi(phi))))
    ELSE [c |-> centre, r |-> radius, phi |-> NormAngle(phi)]

\* p[0] and p[1] of an (x, y) point.
X(p) == IF p.r = Zero THEN p.c[1] ELSE NaR

Y(p) == IF p.r = Zero THEN p.c[2] ELSE NaR

\* a + b and a - b for arrays; at most one of the two is in polar form.
AddPt(a, b) ==
    IF b.r = Zero
    THEN [a EXCEPT !.c = <<RAdd(a.c[1], b.c[1]), RAdd(a.c[2], b.c[2])>>]
    ELSE IF a.r = Zero
    THEN [b EXCEPT !.c = <<RAdd(a.c[1], b.c[1]), RAdd(a.c[2], b.c[2])>>]
    ELSE Pt(NaR, NaR)

SubPt(a, b) == Pt(RSub(X(a), X(b)), RSub(Y(a), Y(b)))

\* ------------------------------------------------------------------------
\* Python values that are given where a point is expected
\* ------------------------------------------------------------------------
\* A tuple or a list holds a sequence of numbers; an array holds a point.
Tuple(x, y) == [kind |-> "tuple", val |-> <<x, y>>]

List(x, y) == [kind |-> "list", val |-> <<x, y>>]

Array(p) == [kind |-> "array", val |-> p]

\* None
None == <<>>

\* a + b in Python.  An array adds element by element to anything of
\* length 2; two tuples or two lists concatenate; a tuple and a list do not
\* add.  The result is [err, v].
PyAdd(a, b) ==
    IF a.kind = "array" /\ b.kind = "array"
    THEN [err |-> "", v |-> Array(AddPt(a.val, b.val))]
    ELSE IF a.kind = "array"
    THEN IF Len(b.val) = 2
         THEN [err |-> "", v |-> Array(AddPt(a.val, Pt(b.val[1], b.val[2])))]
         ELSE [err |-> "ValueError", v |-> None]
    ELSE IF b.kind = "array"
    THEN IF Len(a.val) = 2
         THEN [err |-> "", v |-> Array(AddPt(Pt(a.val[1], a.val[2]), b.val))]
         ELSE [err |-> "ValueError", v |-> None]
    ELSE IF a.kind = b.kind
    THEN [err |-> "", v |-> [kind |-> a.kind, val |-> a.val \o b.val]]
    ELSE [err |-> "TypeError", v |-> None]

\* wrapper.to_point: a new array of indexable[0] and indexable[1].
to_point(indexable) ==
    IF indexable.kind = "array" THEN indexable.val
    ELSE Pt(indexable.val[1], indexable.val[2])

\* wrapper.to_point_list
to_point_list(iterable) == [k \in 1..Len(iterable) |-> to_point(iterable[k])]

\* ------------------------------------------------------------------------
\* from_increments
\* ------------------------------------------------------------------------
\* from_increments with every point the origin plus one increment alone.
from_increments_loop_NoSum(increments, points) ==
    points \o [k \in 1..Len(increments) |-> AddPt(points[1], increments[k])]

RECURSIVE from_increments_loop(_, _)
from_increments_loop(increments, points) ==
    IF increments = <<>> THEN points
    ELSE from_increments_loop(Tail(increments),
                              Append(points, AddPt(points[Len(points)], Head(increments))))

from_increments(increments, origin) ==
    from_increments_loop(to_point_list(increments), <<to_point(origin)>>)

\* ------------------------------------------------------------------------
\* smooth_path
\* ------------------------------------------------------------------------
\* np.linspace(start, stop, num)[j], j = 0 .. num-1.
Linspace(start, stop, num, j) ==
    IF num = 1 THEN start
    ELSE RAdd(start, RMul(I(j), RDiv(RSub(stop, start), I(num - 1))))

\* np.inner and np.cross of two vectors
Inner(u, v) == RAdd(RMul(X(u), X(v)), RMul(Y(u), Y(v)))

Cross(u, v) == RSub(RMul(X(u), Y(v)), RMul(Y(u), X(v)))

\* The angle at which the path bends at current, in units of pi:
\* np.angle(inner + 1j * cross).
BendAngle(before, current, after) ==
    LET before_to_current == SubPt(current, before)
        current_to_after == SubPt(after, current)
    IN  ArcTan2(Cross(before_to_current, current_to_after),
                Inner(before_to_current, current_to_after))

\* np.ceil(np.abs(bend_angle) * points_per_radian) + 2
NumArcPoints_OneMore(bend_angle, points_per_radian) ==
    CeilPi(RMul(RAbs(bend_angle), points_per_radian)) + 2

\* The number of points of the arc that replaces a corner.
NumArcPoints(bend_angle, points_per_radian) ==
    CeilPi(RMul(RAbs(bend_angle), points_per_radian)) + 1

\* One corner of smooth_path: [bend, angle, corner, offset].
SmoothCorner(before, current, after, radius, points_per_radian) ==
    LET before_to_current == SubPt(current, before)
        bend_angle == BendAngle(before, current, after)
        half == RDiv(bend_angle, I(2))
        \* h = radius / cos(bend_angle / 2) is kept inside the two quotients
        theta == RAdd(RAdd(ArcTan2(Y(before_to_current), X(before_to_current)), half),
                      Q(RSign(bend_angle), 2))
        offset == Pt(RMul(radius, CosOverCos(theta, half)),
                     RMul(radius, SinOverCos(theta, half)))
        num == NumArcPoints(bend_angle, points_per_radian)
        centre == AddPt(current, offset)
        arc_angle(j) == RAdd(RAdd(theta, I(1)), Linspace(RNeg(half), half, num, j))
    IN  [bend   |-> [j \in 1..num |-> Polar(centre.c, radius, arc_angle(j - 1))],
         angle  |-> bend_angle,
         corner |-> current,
         offset |-> offset]

\* smooth_path with the test np.abs(bend_angle) >= 0.
IsBend_OrStraight(bend_angle) == RLe(Zero, RAbs(bend_angle))

\* if np.abs(bend_angle) > 0
IsBend(bend_angle) == RLt(Zero, RAbs(bend_angle))

RECURSIVE smooth_path_loop(_, _, _, _, _)
smooth_path_loop(points, radius, points_per_radian, k, acc) ==
    IF k + 1 > Len(points) THEN acc
    ELSE LET bend_angle == BendAngle(points[k - 1], points[k], points[k + 1])
             sc == SmoothCorner(points[k - 1], points[k], points[k + 1],
                                radius, points_per_radian)
         IN  smooth_path_loop(points, radius, points_per_radian, k + 1,
                 IF IsBend(bend_angle)
                 THEN [bends   |-> Append(acc.bends, sc.bend),
                       angles  |-> Append(acc.angles, sc.angle),
                       corners |-> Append(acc.corners, sc.corner),
                       offsets |-> Append(acc.offsets, sc.offset)]
                 ELSE acc)   \* co-linear: drop the current point

smooth_path(points, radius, points_per_radian) ==
    smooth_path_loop(points, radius, points_per_radian, 2,
                     [bends |-> <<>>, angles |-> <<>>, corners |-> <<>>, offsets |-> <<>>])

\* ------------------------------------------------------------------------
\* Elements: every element is a record with the attributes of all classes;
\* an attribute a class does not set is None.
\* ------------------------------------------------------------------------
NoElement ==
    [kind |-> "", _points |-> <<>>, radius |-> None, points_per_radian |-> None,
     bends |-> <<>>, angles |-> <<>>, corners |-> <<>>, offsets |-> <<>>,
     width |-> None, gap |-> None, start_overlap |-> None, end_overlap |-> None,
     start_width |-> None, end_width |-> None, start_gap |-> None, end_gap |-> None,
     mesh_spacing |-> None, mesh_border |-> None, start_mesh_border |-> None,
     end_mesh_border |-> None, mesh_radius |-> None, num_circle_points |-> 0,
     num_mesh_rows |-> 0, mesh_centers |-> <<>>]

\* Element.__init__: the outline as a list of arrays, rounded to multiples of
\* round_to when that is given.
ElementInit(kind, points, round_to) ==
    LET pts == to_point_list(points)
        rounded(p) == Pt(RMul(round_to, I(RRound(RDiv(X(p), round_to)))),
                         RMul(round_to, I(RRound(RDiv(Y(p), round_to)))))
    IN  [NoElement EXCEPT
            !.kind = kind,
            !._points = IF round_to # None
                        THEN [k \in 1..Len(pts) |-> rounded(pts[k])]
                        ELSE pts]

\* SmoothedElement.__init__ with smooth_path(self._points, radius / 2,
\* points_per_radian).
SmoothedElementInit_HalfRadius(kind, outline, radius, points_per_radian, round_to) ==
    LET e  == ElementInit(kind, outline, round_to)
        sp == smooth_path(e._points, RDiv(radius, I(2)), points_per_radian)
    IN  [e EXCEPT !.radius = radius, !.points_per_radian = points_per_radian,
                  !.bends = sp.bends, !.angles = sp.angles,
                  !.corners = sp.corners, !.offsets = sp.offsets]

\* SmoothedElement.__init__
SmoothedElementInit(kind, outline, radius, points_per_radian, round_to) ==
    LET e  == ElementInit(kind, outline, round_to)
        sp == smooth_path(e._points, radius, points_per_radian)
    IN  [e EXCEPT !.radius = radius, !.points_per_radian = points_per_radian,
                  !.bends = sp.bends, !.angles = sp.angles,
                  !.corners = sp.corners, !.offsets = sp.offsets]

\* The classes whose points are those of the smoothed path.
SmoothedKinds ==
    {"Trace", "CPW", "CPWBlank", "CPWMesh", "CPWBlankMesh",
     "CPWElbowCoupler", "CPWElbowCouplerBlank"}

\* Element.start and Element.end: self._points[0] and self._points[-1], which
\* raise IndexError on an empty list.
HasPoints(e) == Len(e._points) > 0

Start(e) == e._points[1]

End(e) == e._points[Len(e._points)]

RECURSIVE Concat(_)
Concat(seqs) == IF seqs = <<>> THEN <<>> ELSE Head(seqs) \o Concat(Tail(seqs))

\* SmoothedElement.points with p.append(bend[0]) for p.extend(bend).
Points_FirstOfBend(e) ==
    IF e.kind \in SmoothedKinds
    THEN <<Start(e)>> \o [k \in 1..Len(e.bends) |-> e.bends[k][1]] \o <<End(e)>>
    ELSE e._points

\* Element.points, and SmoothedElement.points: start, every bend, end.
Points(e) ==
    IF e.kind \in SmoothedKinds
    THEN <<Start(e)>> \o Concat(e.bends) \o <<End(e)>>
    ELSE e._points

\* np.hypot(dx, dy) of the difference of two consecutive points: a number
\* where the two are plain points on an axis-parallel line, and a term
\* [from, to] that stands for their distance otherwise.
IsExactHypot(p, q) ==
    /\ p.r = Zero /\ q.r = Zero
    /\ \/ X(p) = X(q)
       \/ Y(p) = Y(q)

Hypot(p, q) ==
    IF X(p) = X(q) THEN RAbs(RSub(Y(q), Y(p))) ELSE RAbs(RSub(X(q), X(p)))

\* The distance of two points as a term: invariant under translation.
HypotTerm(p, q) ==
    [dc |-> <<RSub(q.c[1], p.c[1]), RSub(q.c[2], p.c[2])>>,
     r1 |-> p.r, phi1 |-> p.phi, r2 |-> q.r, phi2 |-> q.phi]

\* np.sum of the hypots: [exact, terms], the sum of the exact distances and
\* the bag of the others.
RECURSIVE SumHypot(_, _, _)
SumHypot(pts, k, acc) ==
    IF k + 1 > Len(pts) THEN acc
    ELSE SumHypot(pts, k + 1,
             IF IsExactHypot(pts[k], pts[k + 1])
             THEN [acc EXCEPT !.exact = RAdd(@, Hypot(pts[k], pts[k + 1]))]
             ELSE [acc EXCEPT !.terms = @ (+) SetToBag({HypotTerm(pts[k], pts[k + 1])})])

\* Element.length
Length(e) == SumHypot(Points(e), 1, [exact |-> Zero, terms |-> EmptyBag])

\* ------------------------------------------------------------------------
\* Mesh
\* ------------------------------------------------------------------------
\* np.linalg.norm of the vector from start to end (axis-parallel), else NaR.
Norm(v) ==
    IF X(v) = Zero THEN RAbs(Y(v))
    ELSE IF Y(v) = Zero THEN RAbs(X(v))
    ELSE NaR

\* The column positions with np.linspace(0, length - mesh_spacing, ...): the
\* first column at the start of the run.
MeshColumns_FromStart(length, mesh_spacing) ==
    LET num_mesh_columns == RFloor(RDiv(length, mesh_spacing))
    IN  IF num_mesh_columns = 0 THEN <<>>
        ELSE IF num_mesh_columns = 1 THEN <<RDiv(length, I(2))>>
        ELSE [j \in 1..num_mesh_columns |->
                 Linspace(Zero, RSub(length, mesh_spacing), num_mesh_columns, j - 1)]

\* The column positions along a straight run of the given length.
MeshColumns(length, mesh_spacing) ==
    LET num_mesh_columns == RFloor(RDiv(length, mesh_spacing))
    IN  IF num_mesh_columns = 0 THEN <<>>
        ELSE IF num_mesh_columns = 1 THEN <<RDiv(length, I(2))>>
        ELSE [j \in 1..num_mesh_columns |->
                 Linspace(RDiv(mesh_spacing, I(2)),
                          RSub(length, RDiv(mesh_spacing, I(2))),
                          num_mesh_columns, j - 1)]

\* start + R (x, y) as a tuple, R the rotation by phi.
RotateShift(start, phi, x, y) ==
    Tuple(RAdd(X(start), RSub(RMul(CosPi(phi), x), RMul(SinPi(phi), y))),
          RAdd(Y(start), RAdd(RMul(SinPi(phi), x), RMul(CosPi(phi), y))))

\* The mesh of one straight run with np.concatenate((y, y)): the rows of one
\* side twice.
StraightMesh_OneSide(start, end, center_to_first_row, mesh_spacing, num_mesh_rows) ==
    LET v   == SubPt(end, start)
        phi == ArcTan2(Y(v), X(v))
        x   == MeshColumns(Norm(v), mesh_spacing)
        y   == [row \in 1..num_mesh_rows |->
                   RAdd(center_to_first_row, RMul(mesh_spacing, I(row - 1)))]
        xs  == x \o x
        ys  == y \o y
    IN  IF x = <<>> THEN <<>>
        ELSE [k \in 1..(Len(ys) * Len(xs)) |->
                 RotateShift(start, phi, xs[((k - 1) % Len(xs)) + 1],
                             ys[((k - 1) \div Len(xs)) + 1])]

\* The mesh of one straight run of path_mesh: np.meshgrid of (x, x) and
\* (y, -y), flattened row by row.
StraightMesh(start, end, center_to_first_row, mesh_spacing, num_mesh_rows) ==
    LET v   == SubPt(end, start)
        phi == ArcTan2(Y(v), X(v))
        x   == MeshColumns(Norm(v), mesh_spacing)
        y   == [row \in 1..num_mesh_rows |->
                   RAdd(center_to_first_row, RMul(mesh_spacing, I(row - 1)))]
        xs  == x \o x
        ys  == y \o [row \in 1..num_mesh_rows |-> RNeg(y[row])]
    IN  IF x = <<>> THEN <<>>
        ELSE [k \in 1..(Len(ys) * Len(xs)) |->
                 RotateShift(start, phi, xs[((k - 1) % Len(xs)) + 1],
                             ys[((k - 1) \div Len(xs)) + 1])]

\* np.round of a positive multiple of pi (never a tie, pi being irrational).
RoundPi(a) == IF a[1] = 0 THEN 0 ELSE RFloor(RAdd(RMul(Q(333, 106), a), Q(1, 2)))

\* The mesh of one bend at one radius with np.linspace(0, max_angle, ...):
\* the centres on one side of the bisector.
CurvedMesh_OneSided(radius, angle, corner, offset, mesh_spacing) ==
    LET num_points == RoundPi(RDiv(RMul(radius, RAbs(angle)), mesh_spacing))
        max_angle  == IF num_points = 1 THEN Zero
                      ELSE RMul(RSub(I(1), RDiv(I(1), I(num_points))), RDiv(angle, I(2)))
        centre     == AddPt(corner, offset)
        back       == ArcTan2(RNeg(Y(offset)), RNeg(X(offset)))
    IN  [j \in 1..num_points |->
            Array(Polar(centre.c, radius,
                        RAdd(back, Linspace(Zero, max_angle, num_points, j - 1))))]

\* The mesh of one bend at one radius.
CurvedMesh(radius, angle, corner, offset, mesh_spacing) ==
    LET num_points == RoundPi(RDiv(RMul(radius, RAbs(angle)), mesh_spacing))
        max_angle  == IF num_points = 1 THEN Zero
                      ELSE RMul(RSub(I(1), RDiv(I(1), I(num_points))), RDiv(angle, I(2)))
        centre     == AddPt(corner, offset)
        back       == ArcTan2(RNeg(Y(offset)), RNeg(X(offset)))
    IN  [j \in 1..num_points |->
            Array(Polar(centre.c, radius,
                        RAdd(back, Linspace(RNeg(max_angle), max_angle, num_points, j - 1))))]

\* Mesh.path_mesh
path_mesh(self) ==
    LET center_to_first_row == RAdd(RAdd(RDiv(self.width, I(2)), self.gap), self.mesh_border)
        nb     == Len(self.bends)
        starts == <<Start(self)>> \o [k \in 1..nb |-> self.bends[k][Len(self.bends[k])]]
        ends   == [k \in 1..nb |-> self.bends[k][1]] \o <<End(self)>>
        straight == Concat([k \in 1..(nb + 1) |->
                        StraightMesh(starts[k], ends[k], center_to_first_row,
                                     self.mesh_spacing, self.num_mesh_rows)])
        center_to_row(row) == RAdd(center_to_first_row, RMul(I(row), self.mesh_spacing))
        radii(row) == <<RSub(self.radius, center_to_row(row)),
                        RAdd(self.radius, center_to_row(row))>>
        at_radius(radius) ==
            IF RLt(radius, RDiv(self.mesh_spacing, I(2))) THEN <<>>
            ELSE Concat([k \in 1..nb |->
                     CurvedMesh(radius, self.angles[k], self.corners[k],
                                self.offsets[k], self.mesh_spacing)])
        curved == Concat([row \in 1..self.num_mesh_rows |->
                      at_radius(radii(row - 1)[1]) \o at_radius(radii(row - 1)[2])])
    IN  straight \o curved

\* Mesh.trapezoid_mesh with every column at the row offset of the start.
trapezoid_mesh_Constant(self) ==
    LET v      == SubPt(End(self), Start(self))
        length == Norm(v)
        phi    == ArcTan2(Y(v), X(v))
        start_to_first_row ==
            RAdd(RAdd(RDiv(self.start_width, I(2)), self.start_gap), self.start_mesh_border)
        x       == MeshColumns(length, self.mesh_spacing)
        yyp(row, j) == RAdd(RMul(self.mesh_spacing, I(row - 1)), start_to_first_row)
        rows    == self.num_mesh_rows
        yy(i, j) == IF i <= rows THEN yyp(i, j) ELSE RNeg(yyp(i - rows, j))
    IN  IF x = <<>> THEN <<>>
        ELSE [k \in 1..(2 * rows * Len(x)) |->
                 RotateShift(Start(self), phi, x[((k - 1) % Len(x)) + 1],
                             yy(((k - 1) \div Len(x)) + 1, ((k - 1) % Len(x)) + 1))]

\* Mesh.trapezoid_mesh
trapezoid_mesh(self) ==
    LET v      == SubPt(End(self), Start(self))
        length == Norm(v)
        phi    == ArcTan2(Y(v), X(v))
        start_to_first_row ==
            RAdd(RAdd(RDiv(self.start_width, I(2)), self.start_gap), self.start_mesh_border)
        difference_to_first_row ==
            RSub(RAdd(RAdd(RDiv(self.end_width, I(2)), self.end_gap), self.end_mesh_border),
                 start_to_first_row)
        x       == MeshColumns(length, self.mesh_spacing)
        y_shift(j) == RAdd(start_to_first_row,
                           RDiv(RMul(difference_to_first_row, x[j]), length))
        yyp(row, j) == RAdd(RMul(self.mesh_spacing, I(row - 1)), y_shift(j))
        rows    == self.num_mesh_rows
        yy(i, j) == IF i <= rows THEN yyp(i, j) ELSE RNeg(yyp(i - rows, j))
    IN  IF x = <<>> THEN <<>>
        ELSE [k \in 1..(2 * rows * Len(x)) |->
                 RotateShift(Start(self), phi, x[((k - 1) % Len(x)) + 1],
                             yy(((k - 1) \div Len(x)) + 1, ((k - 1) % Len(x)) + 1))]

\* ------------------------------------------------------------------------
\* Constructors.  Each returns [err, e]: the exception raised ("" for none)
\* and the element.
\* ------------------------------------------------------------------------
Ok(e) == [err |-> "", e |-> e]

Raised(err) == [err |-> err, e |-> NoElement]

\* Trace.__init__
Trace(outline, width, start_overlap, end_overlap, radius, points_per_radian, round_to) ==
    LET r == IF radius = None THEN RMul(I(2), width) ELSE radius
        e == SmoothedElementInit("Trace", outline, r, points_per_radian, round_to)
    IN  Ok([e EXCEPT !.width = width, !.start_overlap = start_overlap,
                     !.end_overlap = end_overlap])

\* CPW.__init__, CPWBlank.__init__, CPWElbowCoupler.__init__ and
\* CPWElbowCouplerBlank.__init__ are the same but for the class.
CPWInit(kind, outline, width, gap, radius, points_per_radian, round_to) ==
    LET r == IF radius = None THEN RAdd(RDiv(width, I(2)), gap) ELSE radius
        e == SmoothedElementInit(kind, outline, r, points_per_radian, round_to)
    IN  [e EXCEPT !.width = width, !.gap = gap]

CPW(outline, width, gap, radius, points_per_radian, round_to) ==
    Ok(CPWInit("CPW", outline, width, gap, radius, points_per_radian, round_to))

CPWBlank(outline, width, gap, radius, points_per_radian, round_to) ==
    Ok(CPWInit("CPWBlank", outline, width, gap, radius, points_per_radian, round_to))

CPWElbowCoupler(tip_point, elbow_point, joint_point, width, gap, radius, points_per_radian, round_to) ==
    Ok(CPWInit("CPWElbowCoupler", <<tip_point, elbow_point, joint_point>>, width, gap,
               radius, points_per_radian, round_to))

CPWElbowCouplerBlank(tip_point, elbow_point, joint_point, width, gap, radius, points_per_radian, round_to) ==
    Ok(CPWInit("CPWElbowCouplerBlank", <<tip_point, elbow_point, joint_point>>, width, gap,
               radius, points_per_radian, round_to))

\* CPWMesh.__init__ and CPWBlankMesh.__init__: path_mesh reads self.start.
CPWMeshInit(kind, outline, width, gap, mesh_spacing, mesh_border, mesh_radius, num_circle_points, num_mesh_rows, radius, points_per_radian, round_to) ==
    LET e == [CPWInit(kind, outline, width, gap, radius, points_per_radian, round_to)
                 EXCEPT !.mesh_spacing = mesh_spacing, !.mesh_radius = mesh_radius,
                        !.mesh_border = mesh_border,
                        !.num_circle_points = num_circle_points,
                        !.num_mesh_rows = num_mesh_rows]
    IN  IF ~HasPoints(e) THEN Raised("IndexError")
        ELSE Ok([e EXCEPT !.mesh_centers = path_mesh(e)])

CPWMesh(outline, width, gap, mesh_spacing, mesh_border, mesh_radius, num_circle_points, num_mesh_rows, radius, points_per_radian, round_to) ==
    CPWMeshInit("CPWMesh", outline, width, gap, mesh_spacing, mesh_border, mesh_radius,
                num_circle_points, num_mesh_rows, radius, points_per_radian, round_to)

CPWBlankMesh(outline, width, gap, mesh_spacing, mesh_border, mesh_radius, num_circle_points, num_mesh_rows, radius, points_per_radian, round_to) ==
    CPWMeshInit("CPWBlankMesh", outline, width, gap, mesh_spacing, mesh_border, mesh_radius,
                num_circle_points, num_mesh_rows, radius, points_per_radian, round_to)

\* CPWTransition.__init__ and CPWTransitionBlank.__init__
CPWTransitionInit(kind, start_point, end_point, start_width, end_width, start_gap, end_gap, round_to) ==
    [ElementInit(kind, <<start_point, end_point>>, round_to)
        EXCEPT !.start_width = start_width, !.start_gap = start_gap,
               !.end_width = end_width, !.end_gap = end_gap]

CPWTransition(start_point, end_point, start_width, end_width, start_gap, end_gap, round_to) ==
    Ok(CPWTransitionInit("CPWTransition", start_point, end_point, start_width, end_width,
                         start_gap, end_gap, round_to))

CPWTransitionBlank(start_point, end_point, start_width, end_width, start_gap, end_gap, round_to) ==
    Ok(CPWTransitionInit("CPWTransitionBlank", start_point, end_point, start_width,
                         end_width, start_gap, end_gap, round_to))

\* CPWTransitionMesh.__init__ and CPWTransitionBlankMesh.__init__
CPWTransitionMeshInit(kind, start_point, end_point, start_width, end_width, start_gap, end_gap, mesh_spacing, start_mesh_border, end_mesh_border, mesh_radius, num_circle_points, num_mesh_rows, round_to) ==
    LET e == [CPWTransitionInit(kind, start_point, end_point, start_width, end_width,
                                start_gap, end_gap, round_to)
                 EXCEPT !.mesh_spacing = mesh_spacing,
                        !.start_mesh_border = start_mesh_border,
                        !.end_mesh_border = end_mesh_border,
                        !.mesh_radius = mesh_radius,
                        !.num_circle_points = num_circle_points,
                        !.num_mesh_rows = num_mesh_rows]
    IN  Ok([e EXCEPT !.mesh_centers = trapezoid_mesh(e)])

CPWTransitionMesh(start_point, end_point, start_width, end_width, start_gap, end_gap, mesh_spacing, start_mesh_border, end_mesh_border, mesh_radius, num_circle_points, num_mesh_rows, round_to) ==
    CPWTransitionMeshInit("CPWTransitionMesh", start_point, end_point, start_width,
                          end_width, start_gap, end_gap, mesh_spacing, start_mesh_border,
                          end_mesh_border, mesh_radius, num_circle_points, num_mesh_rows,
                          round_to)

CPWTransitionBlankMesh(start_point, end_point, start_width, end_width, start_gap, end_gap, mesh_spacing, start_mesh_border, end_mesh_border, mesh_radius, num_circle_points, num_mesh_rows, round_to) ==
    CPWTransitionMeshInit("CPWTransitionBlankMesh", start_point, end_point, start_width,
                          end_width, start_gap, end_gap, mesh_spacing, start_mesh_border,
                          end_mesh_border, mesh_radius, num_circle_points, num_mesh_rows,
                          round_to)

\* ------------------------------------------------------------------------
\* The drawing back end: the calls path.py makes on a wrapper.Cell
\* ------------------------------------------------------------------------
add_path(points, layer, width) ==
    [op |-> "add_path", points |-> points, layer |-> layer, width |-> width]

add_polygon(points, layer) ==
    [op |-> "add_polygon", points |-> points, layer |-> layer]

add_polygon_arc(center, inner_radius, outer_radius, layer, start_angle, stop_angle) ==
    [op |-> "add_polygon_arc", center |-> to_point(center), inner_radius |-> inner_radius,
     outer_radius |-> outer_radius, layer |-> layer,
     start_angle |-> start_angle, stop_angle |-> stop_angle]

add_circle(origin, radius, layer, number_of_points) ==
    [op |-> "add_circle", origin |-> to_point(origin), radius |-> radius,
     layer |-> layer, number_of_points |-> number_of_points]

subtract(positive_layer, negative_layer, result_layer) ==
    [op |-> "subtract", positive_layer |-> positive_layer,
     negative_layer |-> negative_layer, result_layer |-> result_layer, delete |-> TRUE]

\* The layers of a cell.
Layers == 1..3

EmptyCell == [layer \in Layers |-> <<>>]

\* Cell.subtract that never deletes the source layers.
CellSubtract_Keeps(shapes, c) ==
    [shapes EXCEPT ![c.result_layer] =
        Append(@, [op |-> "A-B", A |-> shapes[c.positive_layer], B |-> shapes[c.negative_layer]])]

\* Cell.subtract on the shapes of a cell: the boolean operation A-B puts
\* its result, a shape that keeps what A and B held, on the result layer;
\* with delete, everything on the two source layers is then deleted.
CellSubtract(shapes, c) ==
    LET result  == [op |-> "A-B", A |-> shapes[c.positive_layer],
                    B |-> shapes[c.negative_layer]]
        boolean == [shapes EXCEPT ![c.result_layer] = Append(@, result)]
    IN  IF c.delete
        THEN [boolean EXCEPT ![c.positive_layer] = <<>>, ![c.negative_layer] = <<>>]
        ELSE boolean

\* The effect of one call on the shapes of the cell: every add_ call puts
\* one shape on its layer.
CellCall(shapes, c) ==
    IF c.op = "subtract" THEN CellSubtract(shapes, c)
    ELSE [shapes EXCEPT ![c.layer] = Append(@, c)]

RECURSIVE CellCalls(_, _)
CellCalls(shapes, cs) ==
    IF cs = <<>> THEN shapes ELSE CellCalls(CellCall(shapes, Head(cs)), Tail(cs))

\* ------------------------------------------------------------------------
\* draw.  Each returns [calls, err, self]: the back-end calls made, in order,
\* the exception that ended the call ("" for none), and the element after
\* the call.
\* ------------------------------------------------------------------------
Returns(calls, self) == [calls |-> calls, err |-> "", self |-> self]

Raises(calls, err, self) == [calls |-> calls, err |-> err, self |-> self]

\* [origin + point for point in self.points], for an origin that is an array
Translated(origin, self) ==
    LET pts == Points(self) IN [k \in 1..Len(pts) |-> AddPt(origin, pts[k])]

\* The two points of an overlap path that runs from the point at towards
\* the point next to it.
OverlapPoints_Inward(at, next, overlap) ==
    LET v   == SubPt(next, at)
        phi == ArcTan2(Y(v), X(v))
    IN  <<at, Polar(at.c, overlap, phi)>>

\* The two points of an overlap path: from the point at, by overlap, in the
\* direction from the point next to at towards at.
OverlapPoints(at, next, overlap) ==
    LET v   == SubPt(at, next)
        phi == ArcTan2(Y(v), X(v))
    IN  <<at, Polar(at.c, overlap, phi)>>

\* Trace.draw with the end point of the end overlap stored in the element.
TraceDraw_StoresOverlap(self, origin, result_layer) ==
    LET points == Translated(to_point(origin), self)
        n      == Len(points)
        local  == Points(self)
    IN  Returns(
          <<add_path(points, result_layer, self.width)>>
          \o (IF RLt(Zero, self.start_overlap)
              THEN <<add_path(OverlapPoints(points[1], points[2], self.start_overlap),
                              result_layer, self.width)>>
              ELSE <<>>)
          \o (IF RLt(Zero, self.end_overlap)
              THEN <<add_path(OverlapPoints(points[n], points[n - 1], self.end_overlap),
                              result_layer, self.width)>>
              ELSE <<>>),
          IF RLt(Zero, self.end_overlap)
          THEN [self EXCEPT !._points =
                   Append(@, OverlapPoints(local[n], local[n - 1], self.end_overlap)[2])]
          ELSE self)

\* Trace.draw
TraceDraw(self, origin, result_layer) ==
    IF ~HasPoints(self) THEN Raises(<<>>, "IndexError", self)
    ELSE
    LET points == Translated(to_point(origin), self)
        n      == Len(points)
    IN  Returns(
          <<add_path(points, result_layer, self.width)>>
          \o (IF RLt(Zero, self.start_overlap)
              THEN <<add_path(OverlapPoints(points[1], points[2], self.start_overlap),
                              result_layer, self.width)>>
              ELSE <<>>)
          \o (IF RLt(Zero, self.end_overlap)
              THEN <<add_path(OverlapPoints(points[n], points[n - 1], self.end_overlap),
                              result_layer, self.width)>>
              ELSE <<>>),
          self)

\* CPW.draw
CPWDraw(self, origin, positive_layer, negative_layer, result_layer) ==
    IF ~HasPoints(self) THEN Raises(<<>>, "IndexError", self)
    ELSE
    LET points == Translated(to_point(origin), self)
    IN  Returns(<<add_path(points, negative_layer, self.width),
                  add_path(points, positive_layer, RAdd(self.width, RMul(I(2), self.gap))),
                  subtract(positive_layer, negative_layer, result_layer)>>,
                self)

\* CPWBlank.draw
CPWBlankDraw(self, origin, positive_layer, negative_layer, result_layer) ==
    IF ~HasPoints(self) THEN Raises(<<>>, "IndexError", self)
    ELSE
    LET points == Translated(to_point(origin), self)
    IN  Returns(<<add_path(points, positive_layer, RAdd(self.width, RMul(I(2), self.gap))),
                  subtract(positive_layer, negative_layer, result_layer)>>,
                self)

\* np.degrees of an angle in units of pi
Degrees(a) == RMul(I(180), a)

\* The rounded tip of an elbow coupler.
TipArc(self, points, inner_radius, result_layer) ==
    LET v     == SubPt(points[1], points[2])
        theta == Degrees(ArcTan2(Y(v), X(v)))
    IN  add_polygon_arc(Array(points[1]), inner_radius,
                        RAdd(RDiv(self.width, I(2)), self.gap), result_layer,
                        RSub(theta, I(90)), RAdd(theta, I(90)))

\* CPWElbowCoupler.draw with a tip that is not round left out and no error.
CPWElbowCouplerDraw_NoTip(self, origin, positive_layer, negative_layer, result_layer, round_tip) ==
    LET points == Translated(to_point(origin), self)
        paths  == <<add_path(points, negative_layer, self.width),
                    add_path(points, positive_layer, RAdd(self.width, RMul(I(2), self.gap)))>>
    IN  Returns(paths
                \o (IF round_tip
                    THEN <<TipArc(self, points, RDiv(self.width, I(2)), result_layer)>>
                    ELSE <<>>)
                \o <<subtract(positive_layer, negative_layer, result_layer)>>,
                self)

\* CPWElbowCoupler.draw
CPWElbowCouplerDraw(self, origin, positive_layer, negative_layer, result_layer, round_tip) ==
    LET points == Translated(to_point(origin), self)
        paths  == <<add_path(points, negative_layer, self.width),
                    add_path(points, positive_layer, RAdd(self.width, RMul(I(2), self.gap)))>>
    IN  IF round_tip
        THEN Returns(paths
                     \o <<TipArc(self, points, RDiv(self.width, I(2)), result_layer),
                          subtract(positive_layer, negative_layer, result_layer)>>,
                     self)
        ELSE Raises(paths, "NotImplementedError", self)

\* CPWElbowCouplerBlank.draw
CPWElbowCouplerBlankDraw(self, origin, result_layer, round_tip) ==
    LET points == Translated(to_point(origin), self)
        paths  == <<add_path(points, result_layer, RAdd(self.width, RMul(I(2), self.gap)))>>
    IN  IF round_tip
        THEN Returns(paths \o <<TipArc(self, points, Zero, result_layer)>>, self)
        ELSE Raises(paths, "NotImplementedError", self)

\* self.length as a number (NaR when it is not one).
LengthValue(self) ==
    LET l == Length(self) IN IF l.terms = EmptyBag THEN l.exact ELSE NaR

\* np.dot(rotation, p) for the rotation by phi
Rotate(phi, p) ==
    Pt(RSub(RMul(CosPi(phi), p[1]), RMul(SinPi(phi), p[2])),
       RAdd(RMul(SinPi(phi), p[1]), RMul(CosPi(phi), p[2])))

\* origin + self.start + the rotated points of a polygon
RotatedShifted(self, origin, poly) ==
    LET v   == SubPt(End(self), Start(self))
        phi == ArcTan2(Y(v), X(v))
    IN  [k \in 1..Len(poly) |->
            AddPt(AddPt(to_point(origin), Start(self)), Rotate(phi, poly[k]))]

\* CPWTransition.draw with the two end vertices of each polygon in the other
\* order.
CPWTransitionDraw_Bowtie(self, origin, result_layer) ==
    LET upper == <<<<Zero, RDiv(self.start_width, I(2))>>,
                   <<Zero, RAdd(RDiv(self.start_width, I(2)), self.start_gap)>>,
                   <<LengthValue(self), RDiv(self.end_width, I(2))>>,
                   <<LengthValue(self), RAdd(RDiv(self.end_width, I(2)), self.end_gap)>>>>
        lower == [k \in 1..Len(upper) |-> <<upper[k][1], RNeg(upper[k][2])>>]
    IN  Returns(<<add_polygon(RotatedShifted(self, origin, upper), result_layer),
                  add_polygon(RotatedShifted(self, origin, lower), result_layer)>>,
                self)

\* CPWTransition.draw
CPWTransitionDraw(self, origin, result_layer) ==
    LET upper == <<<<Zero, RDiv(self.start_width, I(2))>>,
                   <<Zero, RAdd(RDiv(self.start_width, I(2)), self.start_gap)>>,
                   <<LengthValue(self), RAdd(RDiv(self.end_width, I(2)), self.end_gap)>>,
                   <<LengthValue(self), RDiv(self.end_width, I(2))>>>>
        lower == [k \in 1..Len(upper) |-> <<upper[k][1], RNeg(upper[k][2])>>]
    IN  Returns(<<add_polygon(RotatedShifted(self, origin, upper), result_layer),
                  add_polygon(RotatedShifted(self, origin, lower), result_layer)>>,
                self)

\* CPWTransitionBlank.draw
CPWTransitionBlankDraw(self, origin, result_layer) ==
    LET poly == <<<<Zero, RAdd(RDiv(self.start_width, I(2)), self.start_gap)>>,
                  <<LengthValue(self), RAdd(RDiv(self.end_width, I(2)), self.end_gap)>>,
                  <<LengthValue(self), RSub(RNeg(RDiv(self.end_width, I(2))), self.end_gap)>>,
                  <<Zero, RSub(RNeg(RDiv(self.start_width, I(2))), self.start_gap)>>>>
    IN  Returns(<<add_polygon(RotatedShifted(self, origin, poly), result_layer)>>, self)

\* The loop of the mesh classes' draw: one circle at origin + mesh_center for
\* each mesh centre, with the origin as it was given.
RECURSIVE MeshCircles(_, _, _, _, _)
MeshCircles(self, origin, result_layer, k, calls) ==
    IF k > Len(self.mesh_centers) THEN Returns(calls, self)
    ELSE LET sum == PyAdd(origin, self.mesh_centers[k])
         IN  IF sum.err # "" THEN Raises(calls, sum.err, self)
             ELSE MeshCircles(self, origin, result_layer, k + 1,
                      Append(calls, add_circle(sum.v, self.mesh_radius, result_layer,
                                               self.num_circle_points)))

\* The draw of a mesh class: the draw of its base class, then the circles.
MeshDraw(base, origin, result_layer) ==
    IF base.err # "" THEN base
    ELSE MeshCircles(base.self, origin, result_layer, 1, base.calls)

\* CPWMesh.draw, CPWBlankMesh.draw, CPWTransitionMesh.draw and
\* CPWTransitionBlankMesh.draw
CPWMeshDraw(self, origin, positive_layer, negative_layer, result_layer) ==
    MeshDraw(CPWDraw(self, origin, positive_layer, negative_layer, result_layer),
             origin, result_layer)

CPWBlankMeshDraw(self, origin, positive_layer, negative_layer, result_layer) ==
    MeshDraw(CPWBlankDraw(self, origin, positive_layer, negative_layer, result_layer),
             origin, result_layer)

CPWTransitionMeshDraw(self, origin, result_layer) ==
    MeshDraw(CPWTransitionDraw(self, origin, result_layer), origin, result_layer)

CPWTransitionBlankMeshDraw(self, origin, result_layer) ==
    MeshDraw(CPWTransitionBlankDraw(self, origin, result_layer), origin, result_layer)

\* element.draw(cell, origin, positive_layer, negative_layer, result_layer),
\* and for the elbow couplers round_tip, by the class of the element.
Draw(self, origin, positive_layer, negative_layer, result_layer, round_tip) ==
    CASE self.kind = "Trace" -> TraceDraw(self, origin, result_layer)
      [] self.kind = "CPW" ->
            CPWDraw(self, origin, positive_layer, negative_layer, result_layer)
      [] self.kind = "CPWBlank" ->
            CPWBlankDraw(self, origin, positive_layer, negative_layer, result_layer)
      [] self.kind = "CPWMesh" ->
            CPWMeshDraw(self, origin, positive_layer, negative_layer, result_layer)
      [] self.kind = "CPWBlankMesh" ->
            CPWBlankMeshDraw(self, origin, positive_layer, negative_layer, result_layer)
      [] self.kind = "CPWElbowCoupler" ->
            CPWElbowCouplerDraw(self, origin, positive_layer, negative_layer,
                                result_layer, round_tip)
      [] self.kind = "CPWElbowCouplerBlank" ->
            CPWElbowCouplerBlankDraw(self, origin, result_layer, round_tip)
      [] self.kind = "CPWTransition" -> CPWTransitionDraw(self, origin, result_layer)
      [] self.kind = "CPWTransitionBlank" ->
            CPWTransitionBlankDraw(self, origin, result_layer)
      [] self.kind = "CPWTransitionMesh" ->
            CPWTransitionMeshDraw(self, origin, result_layer)
      [] self.kind = "CPWTransitionBlankMesh" ->
            CPWTransitionBlankMeshDraw(self, origin, result_layer)

\* ------------------------------------------------------------------------
\* The program: one call of Path.draw, of an element's draw, of a
\* constructor or of from_increments
\* ------------------------------------------------------------------------
VARIABLES
    pc,        \* "start", "returned" or "raised"
    call,      \* the function called
    input,     \* the arguments of a constructor or of from_increments
    result,    \* what a constructor or from_increments returned
    err,       \* the exception that ended the call, "" for none
    origin,    \* the caller's origin object
    origin0,   \* the value the caller's origin had when the call was made
    layers,    \* <<positive_layer, negative_layer, result_layer>> of the call
    round_tip, \* the round_tip argument of the call
    made,      \* the elements as their constructors returned them
    elems,     \* the elements (the Path, or the one element drawn)
    i,         \* Path.draw: the number of elements drawn so far
    point,     \* Path.draw: the running origin
    drawn,     \* for each draw of an element: the origin given and the calls made
    calls,     \* all back-end calls made, in order
    shapes,    \* the shapes on each layer of the cell
    cellNames, \* Layout.pyl.drawing: the cellName of each of its cells, firstCell first
    drawings   \* the Drawing objects that Layout.drawing has returned

vars == <<pc, call, input, result, err, origin, origin0, layers, round_tip, made, elems,
          i, point, drawn, calls, shapes, cellNames, drawings>>

\* The outlines of the elements that are drawn.
East == <<Tuple(I(0), I(0)), Tuple(I(100), I(0))>>

North == <<Tuple(I(0), I(0)), Tuple(I(0), I(50))>>

Offset == <<Tuple(I(1), I(1)), Tuple(I(1), I(9))>>

LeftTurn == <<Tuple(I(0), I(0)), Tuple(I(8), I(0)), Tuple(I(8), I(8))>>

RightTurn == <<List(I(0), I(0)), List(I(0), I(8)), List(I(8), I(8))>>

OnePoint == <<Tuple(I(0), I(0))>>

\* A turn between segments shorter than the default radius of a Trace.
ShortTurn == <<Tuple(I(0), I(0)), Tuple(I(2), I(0)), Tuple(I(2), I(2))>>

\* The elements that are drawn, each made by its constructor.
Pool ==
    { Trace(East, I(2), Zero, Zero, None, I(60), None).e,
      Trace(North, I(2), I(5), I(3), None, I(60), None).e,
      Trace(LeftTurn, I(1), I(1), I(1), None, Q(1, 2), None).e,
      Trace(Offset, I(2), Zero, Zero, None, I(60), None).e,
      Trace(OnePoint, I(2), I(1), Zero, None, I(60), None).e,
      Trace(ShortTurn, I(2), I(1), I(1), None, Q(1, 2), None).e,
      CPW(LeftTurn, I(2), I(1), None, I(1), None).e,
      CPWBlank(North, I(2), I(1), None, I(60), None).e,
      CPWMesh(RightTurn, I(2), I(1), I(3), I(1), Q(1, 2), 8, 2, I(4), Q(1, 2), None).e,
      CPWBlankMesh(East, I(2), I(1), I(40), I(1), Q(1, 2), 8, 1, None, I(60), None).e,
      CPWElbowCoupler(Tuple(I(0), I(0)), Tuple(I(8), I(0)), Tuple(I(8), I(-8)), I(2), I(1), None, Q(1, 2), None).e,
      CPWElbowCouplerBlank(Tuple(I(0), I(0)), Tuple(I(0), I(8)), Tuple(I(8), I(8)), I(2), I(1), None, Q(1, 2), None).e,
      CPWTransition(Tuple(I(0), I(0)), Tuple(I(0), I(-6)), I(2), I(4), I(1), I(2), None).e,
      CPWTransition(List(I(1), I(1)), List(I(4), I(1)), I(4), I(1), Zero, I(1), None).e,
      CPWTransitionBlank(Tuple(I(0), I(0)), Tuple(I(6), I(0)), I(2), I(4), I(1), I(2), None).e,
      CPWTransitionMesh(Tuple(I(0), I(0)), Tuple(I(6), I(0)), I(2), I(4), I(1), I(2), I(2), I(1), I(2), Q(1, 2), 8, 1, None).e,
      CPWTransitionBlankMesh(Tuple(I(2), I(0)), Tuple(I(-3), I(0)), I(2), I(4), I(1), I(2), I(2), I(1), I(2), Q(1, 2), 8, 2, None).e }

\* The Paths that are drawn: every list of at most MaxPathLen elements.
RECURSIVE SeqsUpTo(_, _)
SeqsUpTo(S, n) ==
    IF n = 0 THEN {<<>>}
    ELSE LET shorter == SeqsUpTo(S, n - 1)
         IN  shorter \cup {Append(q, x) : q \in {t \in shorter : Len(t) = n - 1}, x \in S}

Paths == SeqsUpTo(Pool, MaxPathLen)

\* The origins given to draw: a tuple, a list and arrays.
Origins == {Tuple(I(10), I(10)), List(I(10), I(10)), Array(P(10, 10)), Array(P(-3, 7))}

\* The layers given to draw: three different layers, and a result layer that
\* is also the negative layer.
LayerArgs == {<<1, 2, 3>>, <<1, 2, 2>>}

ElbowKinds == {"CPWElbowCoupler", "CPWElbowCouplerBlank"}

Init ==
    /\ pc = "start"
    /\ call = ""
    /\ input = None
    /\ result = None
    /\ err = ""
    /\ origin = None
    /\ origin0 = None
    /\ layers = None
    /\ round_tip = TRUE
    /\ made = <<>>
    /\ elems = <<>>
    /\ i = 0
    /\ point = None
    /\ drawn = <<>>
    /\ calls = <<>>
    /\ shapes = EmptyCell
    /\ cellNames = <<>>
    /\ drawings = <<>>

\* Path.start, Path.end, Path.span and Path.length of a non-empty Path.
PathStart(path) == Start(path[1])

RECURSIVE PathEnd(_)
PathEnd(path) ==
    IF Len(path) = 1 THEN End(path[1])
    ELSE AddPt(PathEnd(SubSeq(path, 1, Len(path) - 1)), End(path[Len(path)]))

PathSpan(path) == SubPt(PathEnd(path), PathStart(path))

RECURSIVE PathLength(_)
PathLength(path) ==
    IF path = <<>> THEN [exact |-> Zero, terms |-> EmptyBag]
    ELSE LET rest == PathLength(SubSeq(path, 1, Len(path) - 1))
             last == Length(path[Len(path)])
         IN  [exact |-> RAdd(rest.exact, last.exact), terms |-> rest.terms (+) last.terms]

\* Path.draw with the running origin never advanced.
PathDrawAdvance_Stays(running, caller_origin, end) ==
    [point |-> running, origin |-> caller_origin]

\* Path.draw with point += element.end on the caller's own array.
PathDrawAdvance_InPlace(running, caller_origin, end) ==
    [point  |-> AddPt(running, end),
     origin |-> IF caller_origin.kind = "array"
                THEN Array(AddPt(running, end)) ELSE caller_origin]

\* point = point + element.end: a new array; the caller's origin is not
\* written.  The result is [point, origin].
PathDrawAdvance(running, caller_origin, end) ==
    [point |-> AddPt(running, end), origin |-> caller_origin]

\* Path.draw, its loop: element.draw at the running origin, then the running
\* origin advances by element.end; an exception of element.draw ends the loop.
\* run is [elems, i, point, origin, drawn, calls, shapes, err].
RECURSIVE PathDrawLoop(_, _)
PathDrawLoop(run, l) ==
    IF run.err # "" \/ run.i = Len(run.elems) THEN run
    ELSE LET at   == Array(run.point)
             r    == Draw(run.elems[run.i + 1], at, l[1], l[2], l[3], TRUE)
             next == PathDrawAdvance(run.point, run.origin, End(r.self))
             done == [run EXCEPT
                        !.elems[run.i + 1] = r.self,
                        !.drawn = Append(run.drawn, [origin |-> at, calls |-> r.calls]),
                        !.calls = run.calls \o r.calls,
                        !.shapes = CellCalls(run.shapes, r.calls)]
         IN  PathDrawLoop(IF r.err # ""
                          THEN [done EXCEPT !.err = r.err]
                          ELSE [done EXCEPT !.i = run.i + 1, !.point = next.point,
                                            !.origin = next.origin],
                          l)

\* Path.draw(cell, origin, positive_layer, negative_layer, result_layer) on a
\* new cell: point = wrapper.to_point(origin), then the loop.
PathDraw(path, o, l) ==
    PathDrawLoop([elems |-> path, i |-> 0, point |-> to_point(o), origin |-> o,
                  drawn |-> <<>>, calls |-> <<>>, shapes |-> EmptyCell, err |-> ""], l)

\* element.draw(cell, origin, positive_layer, negative_layer, result_layer)
\* on a new cell, with the caller's origin as it is.
ElementDraw(e, o, l, rt) ==
    LET r == Draw(e, o, l[1], l[2], l[3], rt)
    IN  [elems |-> <<r.self>>, i |-> IF r.err = "" THEN 1 ELSE 0, point |-> None,
         origin |-> o, drawn |-> <<[origin |-> o, calls |-> r.calls]>>,
         calls |-> r.calls, shapes |-> CellCalls(EmptyCell, r.calls), err |-> r.err]

\* A call of Path.draw or of an element's draw: run is what the call did.
Drew(name, es, o, l, rt, run) ==
    /\ pc = "start"
    /\ pc' = IF run.err = "" THEN "returned" ELSE "raised"
    /\ UNCHANGED <<cellNames, drawings>>
    /\ call' = name
    /\ origin0' = o
    /\ layers' = l
    /\ round_tip' = rt
    /\ made' = es
    /\ elems' = run.elems
    /\ i' = run.i
    /\ point' = run.point
    /\ origin' = run.origin
    /\ drawn' = run.drawn
    /\ calls' = run.calls
    /\ shapes' = run.shapes
    /\ err' = run.err
    /\ UNCHANGED <<input, result>>

\* A further call of draw on the element drawn before, on the same cell:
\* run is what the call did.  input keeps the arguments of the call before.
DrewAgain(o, l, rt, run) ==
    /\ pc \in {"returned", "raised"}
    /\ call \in {"draw", "draw again"}
    /\ Len(drawn) < MaxDraws
    /\ pc' = IF run.err = "" THEN "returned" ELSE "raised"
    /\ UNCHANGED <<cellNames, drawings>>
    /\ call' = "draw again"
    /\ input' = [origin |-> origin0, layers |-> layers, round_tip |-> round_tip]
    /\ origin0' = o
    /\ layers' = l
    /\ round_tip' = rt
    /\ elems' = run.elems
    /\ i' = run.i
    /\ point' = run.point
    /\ origin' = run.origin
    /\ drawn' = drawn \o run.drawn
    /\ calls' = calls \o run.calls
    /\ shapes' = CellCalls(shapes, run.calls)
    /\ err' = run.err
    /\ UNCHANGED <<made, result>>

\* A call of from_increments(increments, origin): points is what it returned.
FromIncrements(increments, o, points) ==
    /\ pc = "start"
    /\ pc' = "returned"
    /\ UNCHANGED <<cellNames, drawings>>
    /\ call' = "from_increments"
    /\ input' = [increments |-> increments, origin |-> o]
    /\ result' = points
    /\ UNCHANGED <<err, origin, origin0, layers, round_tip, made, elems, i, point, drawn,
                   calls, shapes>>

\* The loop body of the curved sections of path_mesh for one radius and one
\* bend: centres is the list it adds to mesh_centers.
MeshedCurve(radius, angle, offset, centres) ==
    /\ pc = "start"
    /\ pc' = "returned"
    /\ UNCHANGED <<cellNames, drawings>>
    /\ call' = "path_mesh: curved section"
    /\ input' = [radius |-> radius, angle |-> angle, corner |-> P(0, 0), offset |-> offset,
                 mesh_spacing |-> I(1)]
    /\ result' = centres
    /\ UNCHANGED <<err, origin, origin0, layers, round_tip, made, elems, i, point, drawn,
                   calls, shapes>>

\* The points and outlines given to the constructors: every list of at most
\* MaxOutlineLen grid points whose turns are multiples of a right angle,
\* a right-angle turn coming out of an axis-parallel segment.
GridPoints == {Tuple(I(x), I(y)) : x \in 0..GridMax, y \in 0..GridMax}

AxisParallel(p, q) == X(p) = X(q) \/ Y(p) = Y(q)

Representable(outline) ==
    LET pts == to_point_list(outline)
    IN  \A k \in 2..(Len(pts) - 1) :
           LET b == BendAngle(pts[k - 1], pts[k], pts[k + 1])
           IN  \/ b \in {Zero, I(1)}
               \/ b \in {Q(1, 2), Q(-1, 2)} /\ AxisParallel(pts[k - 1], pts[k])

Outlines == {o \in SeqsUpTo(GridPoints, MaxOutlineLen) : Representable(o)}

\* The outlines given to the constructors of the mesh classes: axis-parallel
\* segments and no reversal; a point is repeated only in an outline that
\* lies on one axis-parallel line, so that every straight run of the
\* smoothed path is axis-parallel.
MeshOutlines ==
    {o \in Outlines :
        LET pts == to_point_list(o)
        IN  /\ \A k \in 1..(Len(pts) - 1) : AxisParallel(pts[k], pts[k + 1])
            /\ \A k \in 2..(Len(pts) - 1) :
                  BendAngle(pts[k - 1], pts[k], pts[k + 1]) # I(1)
            /\ \/ \A k \in 1..(Len(pts) - 1) : pts[k] # pts[k + 1]
               \/ \A j, k \in 1..Len(pts) : X(pts[j]) = X(pts[k])
               \/ \A j, k \in 1..Len(pts) : Y(pts[j]) = Y(pts[k])}

Overlaps == {<<Zero, Zero>>, <<I(5), Zero>>, <<Zero, Q(1, 2)>>, <<I(1), I(1)>>}

Args(kind, outline, overlap) ==
    [kind |-> kind, outline |-> outline, start_overlap |-> overlap[1],
     end_overlap |-> overlap[2]]

Constructed(r) ==
    /\ pc = "start"
    /\ pc' = IF r.err = "" THEN "returned" ELSE "raised"
    /\ UNCHANGED <<cellNames, drawings>>
    /\ call' = "construct"
    /\ result' = r.e
    /\ err' = r.err
    /\ UNCHANGED <<origin, origin0, layers, round_tip, made, elems, i, point, drawn,
                   calls, shapes>>

TransitionKinds ==
    {"CPWTransition", "CPWTransitionBlank", "CPWTransitionMesh", "CPWTransitionBlankMesh"}

TransitionEnds ==
    {pq \in GridPoints \X GridPoints : AxisParallel(to_point(pq[1]), to_point(pq[2]))}

\* Trace(outline, width=2, start_overlap, end_overlap, points_per_radian=1/2)
NewTrace(outline, overlap) ==
    Trace(outline, I(2), overlap[1], overlap[2], None, Q(1, 2), None)

\* CPW(outline, width=2, gap=1, points_per_radian=1) and CPWBlank likewise
NewCPW(kind, outline) ==
    IF kind = "CPW"
    THEN CPW(outline, I(2), I(1), None, I(1), None)
    ELSE CPWBlank(outline, I(2), I(1), None, I(1), None)

\* The mesh spacings given to the constructors of the mesh classes: one
\* that divides the lengths of the grid, one that does not, and one longer
\* than the shortest segment of the grid.
MeshSpacings == {I(1), Q(4, 5), Q(3, 2)}

\* The radii given to the constructors of the mesh classes: the default,
\* width / 2 + gap = 2, whose arcs have no mesh row inside them, and one
\* whose arcs have the first row inside.
MeshRadii == {None, Q(7, 2)}

\* CPWMesh and CPWBlankMesh (outline, width=2, gap=1, mesh_spacing,
\* mesh_border=1, mesh_radius=1/4, num_circle_points=8, num_mesh_rows=2,
\* radius, points_per_radian=1)
NewCPWMesh(kind, outline, mesh_spacing, radius) ==
    IF kind = "CPWMesh"
    THEN CPWMesh(outline, I(2), I(1), mesh_spacing, I(1), Q(1, 4), 8, 2, radius, I(1), None)
    ELSE CPWBlankMesh(outline, I(2), I(1), mesh_spacing, I(1), Q(1, 4), 8, 2, radius, I(1), None)

\* The transition classes (start_point, end_point, start_width=2,
\* end_width=4, start_gap=1, end_gap=2) and for the mesh classes
\* (mesh_spacing, start_mesh_border=1, end_mesh_border=2, mesh_radius=1/4,
\* num_circle_points=8, num_mesh_rows=2)
NewTransition(kind, start_point, end_point, mesh_spacing) ==
    CASE kind = "CPWTransition" ->
           CPWTransition(start_point, end_point, I(2), I(4), I(1), I(2), None)
      [] kind = "CPWTransitionBlank" ->
           CPWTransitionBlank(start_point, end_point, I(2), I(4), I(1), I(2), None)
      [] kind = "CPWTransitionMesh" ->
           CPWTransitionMesh(start_point, end_point, I(2), I(4), I(1), I(2), mesh_spacing, I(1), I(2), Q(1, 4), 8, 2, None)
      [] kind = "CPWTransitionBlankMesh" ->
           CPWTransitionBlankMesh(start_point, end_point, I(2), I(4), I(1), I(2), mesh_spacing, I(1), I(2), Q(1, 4), 8, 2, None)

\* A constructor is called: new is what it returns or raises.
Construct(kind, outline, overlap, new) ==
    /\ input' = Args(kind, outline, overlap)
    /\ Constructed(new)

\* The increments given to from_increments.
Increments ==
    {Tuple(I(200), I(0)), Tuple(I(0), I(300)), List(I(-1), I(2)), Array(Pt(Q(1, 2), I(-3)))}

IncrementOrigins == {Tuple(I(100), I(0)), Tuple(I(0), I(0)), List(I(3), I(-4)), Array(P(1, 1))}

\* ------------------------------------------------------------------------
\* Drawing.to_database_units and Drawing.from_database_units
\* ------------------------------------------------------------------------
\* The values given and returned: Python ints and floats, numpy scalars
\* (which have astype) and numpy arrays with their dtype.
PyInt(n) == [kind |-> "int", val |-> I(n)]

PyFloat(q) == [kind |-> "float", val |-> q]

NpInt(n) == [kind |-> "np.int", val |-> I(n)]

NpFloat(q) == [kind |-> "np.float", val |-> q]

NdArray(dtype, seq) == [kind |-> "ndarray", dtype |-> dtype, val |-> seq]

\* int(x) and astype(np.int) of a number: towards zero.
Truncate(q) == IF q[1] >= 0 THEN RFloor(q) ELSE RCeil(q)

\* to_database_units with int(...) in place of np.round(...): towards zero.
to_database_units_Truncated(self, value_or_array) ==
    LET scaled(q) == IF self.use_user_unit THEN RDiv(q, self.user_unit) ELSE q
    IN  IF value_or_array.kind = "ndarray"
        THEN NdArray("int", [k \in 1..Len(value_or_array.val) |->
                                I(Truncate(scaled(value_or_array.val[k])))])
        ELSE NpInt(Truncate(scaled(value_or_array.val)))

\* Drawing.to_database_units.  np.round of an array is an array and np.round
\* of a number is a numpy scalar, so astype never raises AttributeError and
\* the except branch is not taken.  np.round rounds a tie to the even
\* integer.
to_database_units(self, value_or_array) ==
    LET scaled(q) == IF self.use_user_unit THEN RDiv(q, self.user_unit) ELSE q
    IN  IF value_or_array.kind = "ndarray"
        THEN NdArray("int", [k \in 1..Len(value_or_array.val) |->
                                I(RRound(scaled(value_or_array.val[k])))])
        ELSE NpInt(RRound(scaled(value_or_array.val)))

\* Drawing.from_database_units.  A Python int has no astype: the except
\* branch returns float(value * user_unit) or int(value).
from_database_units(self, value_or_array) ==
    LET v == value_or_array
    IN  IF v.kind = "ndarray"
        THEN IF self.use_user_unit
             THEN NdArray("float", [k \in 1..Len(v.val) |-> RMul(v.val[k], self.user_unit)])
             ELSE NdArray("int", [k \in 1..Len(v.val) |-> I(Truncate(v.val[k]))])
        ELSE IF v.kind \in {"np.int", "np.float"}
        THEN IF self.use_user_unit
             THEN NpFloat(RMul(v.val, self.user_unit))
             ELSE NpInt(Truncate(v.val))
        ELSE IF self.use_user_unit
             THEN PyFloat(RMul(v.val, self.user_unit))
             ELSE PyInt(Truncate(v.val))

\* The drawings: use_user_unit or not, and the user unit.
Drawings ==
    {[use_user_unit |-> u, user_unit |-> q] : u \in BOOLEAN, q \in {Q(1, 1000), Q(1, 4), I(1)}}

\* The integers given to from_database_units: a Python int, a numpy integer
\* and arrays of integers.
DatabaseValues ==
    {PyInt(n) : n \in -MaxValue..MaxValue}
        \cup {NpInt(n) : n \in -MaxValue..MaxValue}
        \cup {NdArray("int", <<I(n), I(-n), I(n + 1)>>) : n \in -MaxValue..MaxValue}

\* The values given to to_database_units: floats that are eighths, ints,
\* arrays, and what from_database_units returns.
Values ==
    {PyFloat(Q(n, 8)) : n \in (-8 * MaxValue)..(8 * MaxValue)}
        \cup {PyInt(n) : n \in -MaxValue..MaxValue}
        \cup {NdArray("float", <<Q(n, 8), Q(-n, 8), Q(n + 4, 8)>>) : n \in -MaxValue..MaxValue}
        \cup {from_database_units(d, v) : d \in Drawings, v \in DatabaseValues}

FromDatabaseUnitsArgs == Drawings \X DatabaseValues

ToDatabaseUnitsArgs == Drawings \X Values

\* A call of from_database_units(value): r is what it returned.
FromDatabaseUnits(d, v, r) ==
    /\ pc = "start"
    /\ pc' = "returned"
    /\ UNCHANGED <<cellNames, drawings>>
    /\ call' = "from_database_units"
    /\ input' = [drawing |-> d, value |-> v]
    /\ result' = r
    /\ UNCHANGED <<err, origin, origin0, layers, round_tip, made, elems, i, point, drawn,
                   calls, shapes>>

\* A call of to_database_units(value), r what it returned: the first call,
\* or a call with what from_database_units has returned; input.from is what
\* that was given.
ToDatabaseUnits(d, v, r) ==
    /\ \/ pc = "start"
       \/ call = "from_database_units" /\ d = input.drawing /\ v = result
    /\ pc' = "returned"
    /\ UNCHANGED <<cellNames, drawings>>
    /\ call' = "to_database_units"
    /\ input' = [drawing |-> d, value |-> v,
                 from |-> IF pc = "start" THEN None ELSE input.value]
    /\ result' = r
    /\ UNCHANGED <<err, origin, origin0, layers, round_tip, made, elems, i, point, drawn,
                   calls, shapes>>

\* ------------------------------------------------------------------------
\* Layout, Drawing and the names of cells
\* ------------------------------------------------------------------------
\* Drawing.__init__: the Drawing object; _cell_number is set only when
\* auto_number is True.
NewDrawing(auto_number) ==
    [auto_number |-> auto_number, cell_number |-> IF auto_number THEN 0 ELSE None]

\* '{}_{}'.format(name, number)
Format(name, number) == name \o "_" \o ToString(number)

\* Drawing.add_cell(name): the Drawing object afterwards and the cellName of
\* the cell added to the drawing.
add_cell(self, name) ==
    IF self.auto_number
    THEN [self |-> [self EXCEPT !.cell_number = self.cell_number + 1],
          cellName |-> Format(name, self.cell_number)]
    ELSE [self |-> self, cellName |-> name]

\* cell_dict[key] = value on an OrderedDict, a sequence of items in insertion
\* order: a key already present keeps its place and takes the new value.
SetItem(cell_dict, key, value) ==
    IF \E n \in DOMAIN cell_dict : cell_dict[n].key = key
    THEN [n \in DOMAIN cell_dict |->
             IF cell_dict[n].key = key THEN [key |-> key, value |-> value] ELSE cell_dict[n]]
    ELSE Append(cell_dict, [key |-> key, value |-> value])

\* Drawing.cells, the loop over the first n cells of the linked list: the
\* value of an item is the place of its cell in the list.
RECURSIVE CellDict(_, _)
CellDict(names, n) ==
    IF n = 0 THEN <<>> ELSE SetItem(CellDict(names, n - 1), names[n], n)

\* Drawing.cells that returns the dictionary whatever its length.
cells_Silent(names) == [err |-> "", value |-> CellDict(names, Len(names))]

\* Drawing.cells: the OrderedDict of the cells of the drawing, or
\* RuntimeError('Duplicate cell name.') when it has fewer items than the
\* list has cells.
cells(names) ==
    IF Len(names) # Len(CellDict(names, Len(names)))
    THEN [err |-> "RuntimeError", value |-> None]
    ELSE [err |-> "", value |-> CellDict(names, Len(names))]

\* The names given to add_cell.
Names == {"a", "a_0"}

\* The calls made on a Layout and on its Drawing objects.
LayoutCalls == {"Layout.drawing", "add_cell", "cells", "Cell.name"}

\* Layout.drawing(auto_number=auto_number): a new Drawing object on the
\* drawing of the Layout.
LayoutDrawing(auto_number) ==
    /\ pc = "start" \/ call \in LayoutCalls
    /\ Len(drawings) < MaxDrawings
    /\ pc' = "returned"
    /\ call' = "Layout.drawing"
    /\ input' = [auto_number |-> auto_number]
    /\ result' = Len(drawings) + 1
    /\ err' = ""
    /\ drawings' = Append(drawings, NewDrawing(auto_number))
    /\ UNCHANGED <<origin, origin0, layers, round_tip, made, elems, i, point, drawn,
                   calls, shapes, cellNames>>

\* add_cell(name) on the k-th Drawing object: the new cell is prepended to
\* the cells of the drawing.
AddCell(k, name) ==
    /\ call \in LayoutCalls
    /\ k \in DOMAIN drawings
    /\ Len(cellNames) < MaxCells
    /\ pc' = "returned"
    /\ call' = "add_cell"
    /\ input' = [self |-> k, name |-> name]
    /\ result' = add_cell(drawings[k], name).cellName
    /\ err' = ""
    /\ drawings' = [drawings EXCEPT ![k] = add_cell(drawings[k], name).self]
    /\ cellNames' = <<add_cell(drawings[k], name).cellName>> \o cellNames
    /\ UNCHANGED <<origin, origin0, layers, round_tip, made, elems, i, point, drawn,
                   calls, shapes>>

\* The cells property read on the k-th Drawing object.
GetCells(k) ==
    /\ call \in LayoutCalls
    /\ k \in DOMAIN drawings
    /\ pc' = IF cells(cellNames).err = "" THEN "returned" ELSE "raised"
    /\ call' = "cells"
    /\ input' = [self |-> k]
    /\ result' = cells(cellNames).value
    /\ err' = cells(cellNames).err
    /\ UNCHANGED <<origin, origin0, layers, round_tip, made, elems, i, point, drawn,
                   calls, shapes, cellNames, drawings>>

\* ------------------------------------------------------------------------
\* Cell.name, and the Drawing of interface.py
\* ------------------------------------------------------------------------
\* A Python str given as a name; None and a Python int are given as well.
Str(s) == [kind |-> "str", val |-> s]

\* str(name)
PyStr(name) ==
    IF name = None THEN "None"
    ELSE IF name.kind = "int" THEN ToString(name.val[1])
    ELSE name.val

\* name != self.name and name in cell_dict, for the str self.name and a
\* dictionary with str keys: a value that is not a str is equal to none.
NotEqual(name, own) == name = None \/ name.kind # "str" \/ name.val # own

In(name, cell_dict) ==
    /\ name # None
    /\ name.kind = "str"
    /\ \E n \in DOMAIN cell_dict : cell_dict[n].key = name.val

\* The setter of Cell.name that assigns whatever name it is given.
name_setter_Unchecked(names, k, name, cell_dict) ==
    [err |-> "", names |-> [names EXCEPT ![k] = PyStr(name)]]

\* The setter of Cell.name on the k-th cell of the list, cell_dict being
\* what self.drawing.cells returns or raises, read only when the name is
\* not the name of the cell: the names of the cells afterwards.
name_setter(names, k, name, cell_dict) ==
    IF NotEqual(name, names[k]) /\ cell_dict.err # ""
    THEN [err |-> cell_dict.err, names |-> names]
    ELSE IF NotEqual(name, names[k]) /\ In(name, cell_dict.value)
    THEN [err |-> "ValueError", names |-> names]
    ELSE [err |-> "", names |-> [names EXCEPT ![k] = PyStr(name)]]

\* interface.py, Drawing.cells: the OrderedDict, whatever its length.
interface_cells(names) == [err |-> "", value |-> CellDict(names, Len(names))]

\* interface.py, Drawing.add_cell, the search for a name: the first of
\* noname_n .. noname_last that is no key, noname_last when all are.
RECURSIVE noname(_, _, _)
noname(cell_dict, n, last) ==
    IF n < last /\ In(Str(Format("noname", n)), cell_dict)
    THEN noname(cell_dict, n + 1, last)
    ELSE Format("noname", n)

\* interface.py, Drawing.add_cell(name): the cells afterwards and the name
\* of the new cell, which is first in the list.
interface_add_cell(names, name) ==
    LET cell_dict == interface_cells(names).value
        cellName  == IF name = None \/ name.val = ""
                     THEN noname(cell_dict, 1, Len(cell_dict) + 1)
                     ELSE name.val
    IN  IF In(name, cell_dict)
        THEN [err |-> "ValueError", names |-> names, cellName |-> None]
        ELSE [err |-> "", names |-> <<cellName>> \o names, cellName |-> cellName]

\* interface.py: the names given to the setter of Cell.name and to add_cell,
\* and the cells of the drawing that Drawing wraps.
SetterNames == {Str("noname_1"), Str(""), Str("5"), PyInt(5)}

InterfaceNames == {None, Str(""), Str("5"), Str("noname_1")}

InterfaceCells == {<<>>, <<"noname_2", "noname_1">>}

InterfaceCalls == {"interface.Drawing", "interface.add_cell", "interface.Cell.name"}

\* Cell.name = name on the k-th cell, in wrapper.py.
SetName(k, name) ==
    /\ call \in LayoutCalls
    /\ k \in DOMAIN cellNames
    /\ pc' = IF name_setter(cellNames, k, name, cells(cellNames)).err = ""
             THEN "returned" ELSE "raised"
    /\ call' = "Cell.name"
    /\ input' = [self |-> k, name |-> name, names |-> cellNames]
    /\ result' = None
    /\ err' = name_setter(cellNames, k, name, cells(cellNames)).err
    /\ cellNames' = name_setter(cellNames, k, name, cells(cellNames)).names
    /\ UNCHANGED <<origin, origin0, layers, round_tip, made, elems, i, point, drawn,
                   calls, shapes, drawings>>

\* interface.py: Drawing(pl_drawing) on a drawing that holds the cells names.
InterfaceDrawing(names) ==
    /\ pc = "start"
    /\ pc' = "returned"
    /\ call' = "interface.Drawing"
    /\ input' = [names |-> names]
    /\ result' = None
    /\ err' = ""
    /\ cellNames' = names
    /\ UNCHANGED <<origin, origin0, layers, round_tip, made, elems, i, point, drawn,
                   calls, shapes, drawings>>

\* interface.py: Drawing.add_cell(name)
InterfaceAddCell(name) ==
    /\ call \in InterfaceCalls
    /\ Len(cellNames) < MaxCells
    /\ pc' = IF interface_add_cell(cellNames, name).err = "" THEN "returned" ELSE "raised"
    /\ call' = "interface.add_cell"
    /\ input' = [name |-> name, names |-> cellNames]
    /\ result' = interface_add_cell(cellNames, name).cellName
    /\ err' = interface_add_cell(cellNames, name).err
    /\ cellNames' = interface_add_cell(cellNames, name).names
    /\ UNCHANGED <<origin, origin0, layers, round_tip, made, elems, i, point, drawn,
                   calls, shapes, drawings>>

\* interface.py: Cell.name = name on the k-th cell.
InterfaceSetName(k, name) ==
    /\ call \in InterfaceCalls
    /\ k \in DOMAIN cellNames
    /\ pc' = IF name_setter(cellNames, k, name, interface_cells(cellNames)).err = ""
             THEN "returned" ELSE "raised"
    /\ call' = "interface.Cell.name"
    /\ input' = [self |-> k, name |-> name, names |-> cellNames]
    /\ result' = None
    /\ err' = name_setter(cellNames, k, name, interface_cells(cellNames)).err
    /\ cellNames' = name_setter(cellNames, k, name, interface_cells(cellNames)).names
    /\ UNCHANGED <<origin, origin0, layers, round_tip, made, elems, i, point, drawn,
                   calls, shapes, drawings>>

\* ------------------------------------------------------------------------
\* interactive.py: layoutWindow
\* ------------------------------------------------------------------------
\* A layoutWindow and the pylayout.project it uses, in one record: the flags
\* layoutClose, schematicClose and textClose; l and s, the place of self.l
\* and of self.s among the layouts and the schematics that the project has
\* handed out, 0 while the attribute is not set; project.defaultGui.  A
\* layout is [from, defaultGui, setup]: the schematic that getLayout was
\* given (0 for newLayout), project.defaultGui when it was made, and the
\* setup call made on it.  A schematic is [from], the layout that
\* getSchematic was given (0 for newSchematic).
WindowTypes == {"schematic", "text", "layoutFull", "layoutBasic"}

LayoutTypes == {"layoutFull", "layoutReduced", "layoutPure", ""}

Setup(windowType) ==
    CASE windowType = "layoutBasic" -> "guiSetupBasic"
      [] windowType = "layoutReduced" -> "guiSetupReduced"
      [] windowType = "layoutPure" -> "addMouseHelp"
      [] OTHER -> ""

\* The layout that openLayout(windowType) obtains.
GotLayout(self, windowType) ==
    [from       |-> IF ~self.schematicClose THEN self.s ELSE 0,
     defaultGui |-> IF Setup(windowType) # "" THEN FALSE ELSE self.defaultGui,
     setup      |-> Setup(windowType)]

\* openLayout without the test of layoutClose.
openLayout_Again(self, windowType) ==
    [self EXCEPT !.layouts = Append(@, GotLayout(self, windowType)),
                 !.l = Len(self.layouts) + 1,
                 !.layoutClose = FALSE,
                 !.defaultGui = TRUE]

\* layoutWindow.openLayout(windowType)
openLayout(self, windowType) ==
    IF self.layoutClose = FALSE THEN self
    ELSE [self EXCEPT !.layouts = Append(@, GotLayout(self, windowType)),
                      !.l = Len(self.layouts) + 1,
                      !.layoutClose = FALSE,
                      !.defaultGui = TRUE]

\* layoutWindow.openSchematic()
openSchematic(self) ==
    IF self.schematicClose = FALSE THEN self
    ELSE [self EXCEPT !.schematics =
                          Append(@, [from |-> IF ~self.layoutClose THEN self.l ELSE 0]),
                      !.s = Len(self.schematics) + 1,
                      !.schematicClose = FALSE]

\* layoutWindow.__init__(windowType), project.defaultGui being defaultGui.
\* openText calls setupText, a name that interactive.py does not define:
\* NameError.
layoutWindow(windowType, defaultGui) ==
    LET self == [layoutClose |-> TRUE, schematicClose |-> TRUE, textClose |-> TRUE,
                 l |-> 0, s |-> 0, layouts |-> <<>>, schematics |-> <<>>,
                 defaultGui |-> defaultGui]
    IN  IF windowType = "schematic" THEN [err |-> "", self |-> openSchematic(self)]
        ELSE IF windowType = "text"
        THEN [err |-> "NameError", self |-> [self EXCEPT !.textClose = FALSE]]
        ELSE [err |-> "", self |-> openLayout(self, windowType)]

\* layoutWindow.pythonMacro(code), raises telling whether the code raises:
\* the except branch opens a layout and shows the message on self.l, which
\* is an AttributeError when self.l is not set.  shown is the layout that
\* showMessage was called on, 0 when it was not called.
pythonMacro(self, raises) ==
    LET opened == openLayout(self, "")
    IN  IF ~raises THEN [err |-> "", self |-> self, shown |-> 0]
        ELSE IF opened.l = 0 THEN [err |-> "AttributeError", self |-> opened, shown |-> 0]
        ELSE [err |-> "", self |-> opened, shown |-> opened.l]

WindowCalls ==
    {"layoutWindow", "openLayout", "layoutClosed", "openSchematic", "schematicClosed",
     "pythonMacro"}

\* A method of the layoutWindow is called or a signal connected to it is
\* emitted: r is [err, self, shown] afterwards.
Window(name, args, r) ==
    /\ pc' = IF r.err = "" THEN "returned" ELSE "raised"
    /\ call' = name
    /\ input' = args
    /\ result' = [self |-> r.self, shown |-> r.shown]
    /\ err' = r.err
    /\ UNCHANGED <<origin, origin0, layers, round_tip, made, elems, i, point, drawn,
                   calls, shapes, cellNames, drawings>>

\* win = layoutWindow(windowType)
LayoutWindow(windowType, defaultGui) ==
    /\ pc = "start"
    /\ Window("layoutWindow", [windowType |-> windowType, defaultGui |-> defaultGui],
              [err   |-> layoutWindow(windowType, defaultGui).err,
               self  |-> layoutWindow(windowType, defaultGui).self,
               shown |-> 0])

\* win.openLayout(windowType); the project hands out at most MaxWindows
\* layouts.
OpenLayout(windowType) ==
    /\ call \in WindowCalls /\ pc = "returned"
    /\ Len(openLayout(result.self, windowType).layouts) <= MaxWindows
    /\ Window("openLayout", [self |-> result.self, windowType |-> windowType],
              [err |-> "", self |-> openLayout(result.self, windowType), shown |-> 0])

\* The layout self.l emits closed.
LayoutClosed ==
    /\ call \in WindowCalls /\ pc = "returned"
    /\ result.self.l # 0
    /\ Window("layoutClosed", [self |-> result.self],
              [err |-> "", self |-> [result.self EXCEPT !.layoutClose = TRUE], shown |-> 0])

\* win.openSchematic(); the project hands out at most MaxWindows schematics.
OpenSchematic ==
    /\ call \in WindowCalls /\ pc = "returned"
    /\ Len(openSchematic(result.self).schematics) <= MaxWindows
    /\ Window("openSchematic", [self |-> result.self],
              [err |-> "", self |-> openSchematic(result.self), shown |-> 0])

\* The schematic self.s emits closed.
SchematicClosed ==
    /\ call \in WindowCalls /\ pc = "returned"
    /\ result.self.s # 0
    /\ Window("schematicClosed", [self |-> result.self],
              [err |-> "", self |-> [result.self EXCEPT !.schematicClose = TRUE],
               shown |-> 0])

\* A layout or a schematic emits executePython(code).
PythonMacro(raises) ==
    /\ call \in WindowCalls /\ pc = "returned"
    /\ Len(pythonMacro(result.self, raises).self.layouts) <= MaxWindows
    /\ Window("pythonMacro", [self |-> result.self, raises |-> raises],
              pythonMacro(result.self, raises))

\* The arguments of the calls that are made.
PathDrawArgs == Paths \X Origins \X LayerArgs

ElementDrawArgs ==
    {a \in Pool \X Origins \X LayerArgs \X BOOLEAN : a[4] = FALSE => a[1].kind \in ElbowKinds}

FromIncrementsArgs == SeqsUpTo(Increments, MaxIncrements) \X IncrementOrigins

TraceArgs == Outlines \X Overlaps

CPWArgs == {"CPW", "CPWBlank"} \X Outlines

CPWMeshArgs == {"CPWMesh", "CPWBlankMesh"} \X MeshOutlines \X MeshSpacings \X MeshRadii

\* The curved sections meshed on their own, with the mesh spacing 1: the
\* radius of a row, the angle of the bend in units of pi, and the offset of
\* the centre of the arc, 4 away from the corner (0, 0).
CurvedMeshArgs ==
    {Q(1, 2), Q(3, 5), I(1), I(2)} \X {Q(1, 4), Q(-1, 4), Q(1, 2), Q(-1, 2)}
        \X {P(0, 4), P(-4, 0)}

TransitionArgs == TransitionKinds \X TransitionEnds \X MeshSpacings

\* One call is made.  What a call computes is a function of its arguments:
\* each disjunct binds that function over the arguments above and then makes
\* one call, with any of the arguments.
Next ==
    \/ \E draw \in {[a \in PathDrawArgs |-> PathDraw(a[1], a[2], a[3])]} :
          /\ pc = "start"
          /\ \E a \in DOMAIN draw : Drew("Path.draw", a[1], a[2], a[3], TRUE, draw[a])
    \/ \E draw \in {[a \in ElementDrawArgs |-> ElementDraw(a[1], a[2], a[3], a[4])]} :
          /\ pc = "start"
          /\ \E a \in DOMAIN draw : Drew("draw", <<a[1]>>, a[2], a[3], a[4], draw[a])
    \/ \E draw \in {[a \in ElementDrawArgs |-> ElementDraw(a[1], a[2], a[3], a[4])]} :
          /\ pc # "start"
          /\ \E a \in DOMAIN draw :
                /\ elems = <<a[1]>>
                /\ DrewAgain(a[2], a[3], a[4], draw[a])
    \/ \E points \in {[a \in FromIncrementsArgs |-> from_increments(a[1], a[2])]} :
          /\ pc = "start"
          /\ \E a \in DOMAIN points : FromIncrements(a[1], a[2], points[a])
    \/ \E back \in {[a \in FromDatabaseUnitsArgs |-> from_database_units(a[1], a[2])]} :
          /\ pc = "start"
          /\ \E a \in DOMAIN back : FromDatabaseUnits(a[1], a[2], back[a])
    \/ \E units \in {[a \in ToDatabaseUnitsArgs |-> to_database_units(a[1], a[2])]} :
          /\ call \in {"", "from_database_units"}
          /\ \E a \in DOMAIN units : ToDatabaseUnits(a[1], a[2], units[a])
    \/ \E new \in {[a \in TraceArgs |-> NewTrace(a[1], a[2])]} :
          /\ pc = "start"
          /\ \E a \in DOMAIN new : Construct("Trace", a[1], a[2], new[a])
    \/ \E new \in {[a \in CPWArgs |-> NewCPW(a[1], a[2])]} :
          /\ pc = "start"
          /\ \E a \in DOMAIN new : Construct(a[1], a[2], <<None, None>>, new[a])
    \/ \E new \in {[a \in CPWMeshArgs |-> NewCPWMesh(a[1], a[2], a[3], a[4])]} :
          /\ pc = "start"
          /\ \E a \in DOMAIN new : Construct(a[1], a[2], <<None, None>>, new[a])
    \/ \E new \in {[a \in TransitionArgs |-> NewTransition(a[1], a[2][1], a[2][2], a[3])]} :
          /\ pc = "start"
          /\ \E a \in DOMAIN new : Construct(a[1], a[2], <<None, None>>, new[a])
    \/ \E curve \in {[a \in CurvedMeshArgs |-> CurvedMesh(a[1], a[2], P(0, 0), a[3], I(1))]} :
          /\ pc = "start"
          /\ \E a \in DOMAIN curve : MeshedCurve(a[1], a[2], a[3], curve[a])
    \/ \E auto_number \in BOOLEAN : LayoutDrawing(auto_number)
    \/ \E k \in 1..MaxDrawings, name \in Names : AddCell(k, name)
    \/ \E k \in 1..MaxDrawings : GetCells(k)
    \/ \E k \in 1..MaxCells, name \in {Str("a"), Str("b")} : SetName(k, name)
    \/ \E names \in InterfaceCells : InterfaceDrawing(names)
    \/ \E name \in InterfaceNames : InterfaceAddCell(name)
    \/ \E k \in 1..MaxCells, name \in SetterNames : InterfaceSetName(k, name)
    \/ \E windowType \in WindowTypes, defaultGui \in BOOLEAN :
          LayoutWindow(windowType, defaultGui)
    \/ \E windowType \in LayoutTypes : OpenLayout(windowType)
    \/ LayoutClosed
    \/ OpenSchematic
    \/ SchematicClosed
    \/ \E raises \in BOOLEAN : PythonMacro(raises)

Spec == Init /\ [][Next]_vars

\* ------------------------------------------------------------------------
\* Properties
\* ------------------------------------------------------------------------
\* The sum of the local-frame end points of the first k elements.
RECURSIVE SumEnds(_, _)
SumEnds(es, k) == IF k = 0 THEN P(0, 0) ELSE AddPt(SumEnds(es, k - 1), End(es[k]))

\* The rendered centre line of the k-th element drawn: its points, each
\* translated by the origin its draw was given.
CentreLine(k) == Translated(to_point(drawn[k].origin), made[k])

FirstRendered(k) == CentreLine(k)[1]

LastRendered(k) == CentreLine(k)[Len(CentreLine(k))]

\* The centre line is what is drawn: a draw that begins with a path begins
\* with the path over the centre line.
PathsOverCentreLines ==
    \A k \in 1..Len(drawn) :
        drawn[k].calls[1].op = "add_path" => drawn[k].calls[1].points = CentreLine(k)

\* C1: Path.draw draws the elements in list order, element k at the
\* caller's origin plus the sum of the end points of the elements before it:
\* after Path.draw returned, every element has been drawn, the k-th draw was
\* given that origin, and made the calls element k makes when drawn there.
C1_Chained ==
    (call = "Path.draw" /\ pc = "returned") =>
        /\ Len(drawn) = Len(made)
        /\ \A k \in 1..Len(drawn) :
              LET at == Array(AddPt(to_point(origin0), SumEnds(made, k - 1)))
              IN  /\ drawn[k].origin = at
                  /\ drawn[k].calls = Draw(made[k], at, layers[1], layers[2], layers[3], TRUE).calls

\* C1, its example: Traces over [(0,0),(100,0)] and [(0,0),(0,50)] drawn at
\* (10,10); the second starts at (110,10).
C1_Example ==
    /\ call = "Path.draw" /\ pc = "returned"
    /\ Len(made) = 2
    /\ made[1].kind = "Trace" /\ made[1]._points = <<P(0, 0), P(100, 0)>>
    /\ made[2].kind = "Trace" /\ made[2]._points = <<P(0, 0), P(0, 50)>>
    /\ to_point(origin0) = P(10, 10)
    /\ drawn[2].origin = Array(P(110, 10))
    /\ drawn[2].calls[1].points[1] = P(110, 10)

\* C2: Path.draw does not write the caller's origin: when Path.draw has
\* ended, the origin object holds the coordinates it held at the call.
C2_OriginKept == call = "Path.draw" => origin = origin0

\* C2, its case: Path.draw returned after its running origin moved away from
\* the caller's origin, for an origin of each kind.
C2_Moved ==
    /\ call = "Path.draw" /\ pc = "returned"
    /\ Len(drawn) = 2
    /\ origin0.kind = "array"
    /\ point # to_point(origin0)
    /\ drawn[2].origin # origin0

\* C3 as stated: in every Path that was drawn, the first rendered
\* centre-line point of each element after the first is the last rendered
\* centre-line point of the element before it.
C3_Connected ==
    (call = "Path.draw" /\ pc = "returned") =>
        /\ PathsOverCentreLines
        /\ \A k \in 1..(Len(drawn) - 1) : FirstRendered(k + 1) = LastRendered(k)

\* C3 amended: the same, for each element after the first whose own start
\* is the point (0,0) of its local frame.
C3_ConnectedFromZero ==
    (call = "Path.draw" /\ pc = "returned") =>
        /\ PathsOverCentreLines
        /\ \A k \in 1..(Len(drawn) - 1) :
              Start(made[k + 1]) = P(0, 0) => FirstRendered(k + 1) = LastRendered(k)

\* C3, its case: a Path of two elements, the second starting at (0,0), the
\* first ending away from its origin.
C3_Pair ==
    /\ call = "Path.draw" /\ pc = "returned"
    /\ Len(drawn) = 2
    /\ Start(made[2]) = P(0, 0)
    /\ End(made[1]) # P(0, 0)
    /\ drawn[2].calls[1].op = "add_path"
    /\ FirstRendered(2) = LastRendered(1)

\* C4: from_increments returns len(increments)+1 points, the first the
\* origin and the k-th after it the origin plus the sum of the first k
\* increments, so that consecutive points differ by the increments.
RECURSIVE SumIncrements(_, _)
SumIncrements(increments, k) ==
    IF k = 0 THEN P(0, 0) ELSE AddPt(SumIncrements(increments, k - 1), to_point(increments[k]))

C4_FromIncrements ==
    call = "from_increments" =>
        /\ pc = "returned"
        /\ Len(result) = Len(input.increments) + 1
        /\ result[1] = to_point(input.origin)
        /\ \A k \in 1..Len(input.increments) :
              /\ result[k + 1] = AddPt(to_point(input.origin), SumIncrements(input.increments, k))
              /\ SubPt(result[k + 1], result[k]) = to_point(input.increments[k])

\* C4, its example: from_increments([(200,0),(0,300)], origin=(100,0)) is
\* [(100,0),(300,0),(300,300)].
C4_Example ==
    /\ call = "from_increments"
    /\ input = [increments |-> <<Tuple(I(200), I(0)), Tuple(I(0), I(300))>>,
                origin |-> Tuple(I(100), I(0))]
    /\ result = <<P(100, 0), P(300, 0), P(300, 300)>>

\* What an element reports of itself: start, end, points and length; start
\* and points raise IndexError for an element without points.
Bookkeeping(e) ==
    IF HasPoints(e)
    THEN [start |-> Start(e), end |-> End(e), points |-> Points(e), length |-> Length(e)]
    ELSE [start |-> "IndexError", end |-> "IndexError", points |-> "IndexError",
          length |-> Zero]

\* The Trace over the outline, width, radius and points_per_radian of the
\* Trace e, without overlaps.
ZeroOverlap(e) ==
    Trace([k \in 1..Len(e._points) |-> Array(e._points[k])], e.width, Zero, Zero,
          e.radius, e.points_per_radian, None).e

\* The number of paths Trace.draw adds for the Trace e.
NumTracePaths(e) ==
    1 + (IF RLt(Zero, e.start_overlap) THEN 1 ELSE 0)
      + (IF RLt(Zero, e.end_overlap) THEN 1 ELSE 0)

\* C5: the overlaps of a Trace do not change its bookkeeping: as it is
\* constructed, and before and after it is drawn, its start, end, points and
\* length are those of the Trace without overlaps over the same outline and
\* width; its draw adds the path of that Trace and one more for each overlap.
C5_OverlapFree ==
    /\ (call = "construct" /\ input.kind = "Trace") =>
          /\ pc = "returned"
          /\ Bookkeeping(result) = Bookkeeping(NewTrace(input.outline, <<Zero, Zero>>).e)
    /\ call \in {"draw", "Path.draw"} =>
          \A k \in 1..Len(made) :
              made[k].kind = "Trace" =>
                  LET plain == ZeroOverlap(made[k])
                  IN  /\ Bookkeeping(made[k]) = Bookkeeping(plain)
                      /\ Bookkeeping(elems[k]) = Bookkeeping(plain)
                      /\ k <= Len(drawn) =>
                            /\ Len(drawn[k].calls) = NumTracePaths(made[k])
                            /\ drawn[k].calls[1] =
                                  add_path(Translated(to_point(drawn[k].origin), plain),
                                           layers[3], plain.width)

\* C5, its case: a Trace with start_overlap=5 and an end overlap has been
\* drawn, with three paths, and reports the length of the Trace without.
C5_Overlapped ==
    /\ call = "draw" /\ pc = "returned"
    /\ made[1].kind = "Trace"
    /\ made[1].start_overlap = I(5)
    /\ RLt(Zero, made[1].end_overlap)
    /\ Len(calls) = 3
    /\ Length(elems[1]) = Length(ZeroOverlap(made[1]))

\* Three points on one straight line, and three points of which the third
\* lies back along the line from the second.
Collinear(pts) == Cross(SubPt(pts[2], pts[1]), SubPt(pts[3], pts[2])) = Zero

Reversal(pts) == RLt(Inner(SubPt(pts[2], pts[1]), SubPt(pts[3], pts[2])), Zero)

NoBends == [bends |-> <<>>, angles |-> <<>>, corners |-> <<>>, offsets |-> <<>>]

\* A smoothed element was constructed over three points on one line.
CollinearTriple ==
    /\ call = "construct"
    /\ input.kind \in {"Trace", "CPW", "CPWBlank", "CPWMesh", "CPWBlankMesh"}
    /\ Len(input.outline) = 3
    /\ Collinear(to_point_list(input.outline))

\* smooth_path over the outline gave no bend, and the element's points are
\* its start and its end.
Elided ==
    /\ pc = "returned"
    /\ smooth_path(result._points, result.radius, result.points_per_radian) = NoBends
    /\ result.bends = <<>> /\ result.angles = <<>>
    /\ result.corners = <<>> /\ result.offsets = <<>>
    /\ Points(result) = <<Start(result), End(result)>>

Degenerate(pts) ==
    \/ Len(pts) < 2
    \/ pts[1] = pts[2]
    \/ pts[Len(pts) - 1] = pts[Len(pts)]

\* C7 as stated: a constructor given a degenerate outline raises.
C7_Rejected ==
    (call = "construct" /\ Degenerate(to_point_list(input.outline))) => pc = "raised"

\* C8: the draw of an elbow coupler with round_tip=False raises
\* NotImplementedError, and adds no tip.
C8_NotImplemented ==
    (call = "draw" /\ made[1].kind \in ElbowKinds /\ round_tip = FALSE) =>
        /\ pc = "raised"
        /\ err = "NotImplementedError"
        /\ \A k \in 1..Len(calls) : calls[k].op = "add_path"

\* C8, its case: CPWElbowCoupler.draw was called with round_tip=False.
C8_SquareTip ==
    /\ call = "draw"
    /\ made[1].kind = "CPWElbowCoupler"
    /\ round_tip = FALSE
    /\ pc = "raised"

\* The shapes of the cell when the k-th element's draw began.
ShapesBefore(k) == CellCalls(EmptyCell, Concat([j \in 1..(k - 1) |-> drawn[j].calls]))

\* C9: the draws of CPW and CPWBlank elements into a cell: each adds the
\* path of width `width` on the negative layer (CPW only) and the path of
\* width `width + 2*gap` on the positive layer, over its translated points,
\* and then subtracts once; the subtraction finds on the two layers the
\* paths of this element alone, and leaves both layers empty.
C9_Layers ==
    (/\ call \in {"draw", "Path.draw"} /\ pc = "returned"
     /\ \A k \in 1..Len(made) : made[k].kind \in {"CPW", "CPWBlank"}) =>
        /\ shapes[layers[1]] = <<>>
        /\ shapes[layers[2]] = <<>>
        /\ \A k \in 1..Len(drawn) :
              LET e      == made[k]
                  cs     == drawn[k].calls
                  points == CentreLine(k)
                  narrow == add_path(points, layers[2], e.width)
                  wide   == add_path(points, layers[1], RAdd(e.width, RMul(I(2), e.gap)))
                  sub    == subtract(layers[1], layers[2], layers[3])
                  seen   == CellCalls(ShapesBefore(k), SubSeq(cs, 1, Len(cs) - 1))
                  after  == CellCalls(ShapesBefore(k), cs)
              IN  /\ cs = IF e.kind = "CPW" THEN <<narrow, wide, sub>> ELSE <<wide, sub>>
                  /\ seen[layers[1]] = <<wide>>
                  /\ seen[layers[2]] = IF e.kind = "CPW" THEN <<narrow>> ELSE <<>>
                  /\ after[layers[1]] = <<>>
                  /\ after[layers[2]] = <<>>

\* C9, its case: a CPW and then a CPWBlank were drawn into layers 1, 2, 3;
\* layer 3 holds two results.
C9_TwoDraws ==
    /\ call = "Path.draw" /\ pc = "returned"
    /\ Len(made) = 2
    /\ made[1].kind = "CPW" /\ made[2].kind = "CPWBlank"
    /\ layers = <<1, 2, 3>>
    /\ Len(shapes[3]) = 2
    /\ shapes[1] = <<>> /\ shapes[2] = <<>>

MeshKinds == {"CPWMesh", "CPWBlankMesh", "CPWTransitionMesh", "CPWTransitionBlankMesh"}

\* The calls of the draw of the base class of the mesh element e.
BaseCalls(e, o, l) ==
    (CASE e.kind = "CPWMesh" -> CPWDraw(e, o, l[1], l[2], l[3])
       [] e.kind = "CPWBlankMesh" -> CPWBlankDraw(e, o, l[1], l[2], l[3])
       [] e.kind = "CPWTransitionMesh" -> CPWTransitionDraw(e, o, l[3])
       [] e.kind = "CPWTransitionBlankMesh" -> CPWTransitionBlankDraw(e, o, l[3])).calls

\* The circles of the mesh element e drawn at the origin o: one for each
\* mesh centre, at the origin translated by it.
Circles(e, o, l) ==
    [k \in 1..Len(e.mesh_centers) |->
        add_circle(Array(AddPt(to_point(o), to_point(e.mesh_centers[k]))),
                   e.mesh_radius, l[3], e.num_circle_points)]

\* C10 as stated: the draw of a mesh element, at an origin that is a tuple,
\* a list or an array, makes the calls of the base class's draw and then
\* one add_circle for each mesh centre, at the origin translated by it.
C10_Stamped ==
    (call = "draw" /\ made[1].kind \in MeshKinds) =>
        /\ pc = "returned"
        /\ calls = BaseCalls(made[1], origin0, layers) \o Circles(made[1], origin0, layers)

\* ------------------------------------------------------------------------
\* C11: the arc of a right-angle corner
\* ------------------------------------------------------------------------
\* A smoothed element was constructed over three points with a right-angle
\* turn, to either side, at the second.
RightAngleCorner ==
    /\ call = "construct" /\ pc = "returned"
    /\ result.kind \in SmoothedKinds
    /\ Len(result._points) = 3
    /\ BendAngle(result._points[1], result._points[2], result._points[3])
           \in {Q(1, 2), Q(-1, 2)}

\* The point p lies on the line from the corner through the point q, on
\* q's side of the corner, at the distance r from the corner.
OnRay(p, corner, q, r) ==
    /\ p.r = Zero
    /\ Cross(SubPt(p, corner), SubPt(q, corner)) = Zero
    /\ RLt(Zero, Inner(SubPt(p, corner), SubPt(q, corner)))
    /\ Norm(SubPt(p, corner)) = r

\* The point p lies at the distance r from the centre: a point in polar
\* form is its centre and its radius.
AtDistance(p, centre, r) ==
    IF p.r = Zero
    THEN RAdd(RMul(RSub(X(p), X(centre)), RSub(X(p), X(centre))),
              RMul(RSub(Y(p), Y(centre)), RSub(Y(p), Y(centre)))) = RMul(r, r)
    ELSE p.c = centre.c /\ p.r = r

\* The one bend is tangent to the lines of the two segments: its first and
\* last points lie at the distance of the radius from the corner towards
\* the first and the last point of the outline, every point of it lies at
\* the distance of the radius from corner + offset, and the radius to each
\* of its ends is perpendicular to the adjacent segment.
Tangent ==
    LET pts    == result._points
        bend   == result.bends[1]
        centre == AddPt(result.corners[1], result.offsets[1])
    IN  /\ Len(result.bends) = 1
        /\ result.corners[1] = pts[2]
        /\ OnRay(bend[1], pts[2], pts[1], result.radius)
        /\ OnRay(bend[Len(bend)], pts[2], pts[3], result.radius)
        /\ \A j \in 1..Len(bend) : AtDistance(bend[j], centre, result.radius)
        /\ Inner(SubPt(bend[1], centre), SubPt(pts[2], pts[1])) = Zero
        /\ Inner(SubPt(bend[Len(bend)], centre), SubPt(pts[3], pts[2])) = Zero

\* The radius is no longer than either segment.
RadiusFits ==
    LET pts == result._points
    IN  /\ RLe(result.radius, Norm(SubPt(pts[2], pts[1])))
        /\ RLe(result.radius, Norm(SubPt(pts[3], pts[2])))

\* C11 as stated: at a right-angle corner the ends of the bend lie on the
\* incoming and the outgoing segment, at the distance of the radius from the
\* corner, and the bend is tangent to both.
C11_TangentOnSegments == RightAngleCorner => (Tangent /\ RadiusFits)

\* C11 amended: at a right-angle corner the ends of the bend lie on the
\* lines of the incoming and the outgoing segment, at the distance of the
\* radius from the corner on the side of the segment, and the bend is
\* tangent to both lines; they lie on the segments themselves when the
\* radius is no longer than the segments.
C11_TangentOnLines == RightAngleCorner => Tangent

\* C11, its case: a CPW of radius 2 over (0,2), (2,2), (2,0), a turn to the
\* right, has the bend (0,2), a point in between, (2,0) about (0,0).
C11_RightTurn ==
    /\ RightAngleCorner /\ RadiusFits
    /\ result.kind = "CPW"
    /\ result._points = <<P(0, 2), P(2, 2), P(2, 0)>>
    /\ result.angles = <<Q(-1, 2)>>
    /\ Len(result.bends[1]) = 3
    /\ result.bends[1][1] = P(0, 2) /\ result.bends[1][3] = P(2, 0)
    /\ result.bends[1][2].r = I(2) /\ result.bends[1][2].c = <<Zero, Zero>>

\* ------------------------------------------------------------------------
\* C12: the number of points of a bend
\* ------------------------------------------------------------------------
\* A smoothed element was constructed.
Smoothed == call = "construct" /\ pc = "returned" /\ result.kind \in SmoothedKinds

\* n = ceil(a * pi) + 1 for a rational a > 0, said with the bounds
\* 333/106 < pi < 355/113: n - 2 < a * pi <= n - 1.
IsCeilPiPlusOne(n, a) ==
    /\ RLe(RMul(a, Q(355, 113)), I(n - 1))
    /\ RLe(I(n - 2), RMul(a, Q(333, 106)))

\* C12: every bend of a smoothed element has exactly
\* ceil(|bend_angle| * points_per_radian) + 1 points, which is at least 2;
\* and a vertex at which the outline turns has a bend.
C12_PointCount ==
    Smoothed =>
        /\ \A k \in 1..Len(result.bends) :
              /\ IsCeilPiPlusOne(Len(result.bends[k]),
                                 RMul(RAbs(result.angles[k]), result.points_per_radian))
              /\ Len(result.bends[k]) >= 2
        /\ (Len(result._points) = 3 /\ ~Collinear(result._points))
               => Len(result.bends) = 1

\* C12, its case: the right-angle bend of a Trace with points_per_radian =
\* 1/2 has ceil(pi/4) + 1 = 2 points, that of a CPW with points_per_radian
\* = 1 has ceil(pi/2) + 1 = 3.
C12_TwoOrThree ==
    /\ Smoothed
    /\ Len(result._points) = 3 /\ ~Collinear(result._points)
    /\ \/ result.kind = "Trace" /\ result.points_per_radian = Q(1, 2)
          /\ Len(result.bends[1]) = 2
       \/ result.kind = "CPW" /\ result.points_per_radian = I(1)
          /\ Len(result.bends[1]) = 3

\* ------------------------------------------------------------------------
\* C13: the four lists of smooth_path
\* ------------------------------------------------------------------------
\* The outline turns at its k-th point: the segments before and after it do
\* not point the same way (a segment of length zero points every way).
Turns(pts, k) ==
    LET u == SubPt(pts[k], pts[k - 1])
        v == SubPt(pts[k + 1], pts[k])
    IN  ~(Cross(u, v) = Zero /\ RLe(Zero, Inner(u, v)))

\* The interior vertices at which the outline turns, in outline order.
TurningVertices(pts) ==
    SelectSeq([k \in 1..(Len(pts) - 2) |-> k + 1], LAMBDA k : Turns(pts, k))

\* The cross product of the segments before and after the k-th point.
CrossAt(pts, k) == Cross(SubPt(pts[k], pts[k - 1]), SubPt(pts[k + 1], pts[k]))

\* The four lists have one entry for each vertex at which the outline
\* turns, in outline order, and corners[i] is the vertex of bend i.
Parallel ==
    LET pts == result._points
        at  == IF Len(pts) < 3 THEN <<>> ELSE TurningVertices(pts)
    IN  /\ Len(result.bends) = Len(at)
        /\ Len(result.angles) = Len(at)
        /\ Len(result.corners) = Len(at)
        /\ Len(result.offsets) = Len(at)
        /\ \A n \in 1..Len(at) : result.corners[n] = pts[at[n]]

RECURSIVE BendPoints(_, _)
BendPoints(bends, n) == IF n = 0 THEN 0 ELSE BendPoints(bends, n - 1) + Len(bends[n])

\* The points are the start, the points of every bend in outline order,
\* and the end.
StartBendsEnd ==
    LET pts == Points(result)
        nb  == Len(result.bends)
    IN  /\ Len(pts) = 2 + BendPoints(result.bends, nb)
        /\ pts[1] = result._points[1]
        /\ pts[Len(pts)] = result._points[Len(result._points)]
        /\ \A k \in 1..nb : \A j \in 1..Len(result.bends[k]) :
              pts[1 + BendPoints(result.bends, k - 1) + j] = result.bends[k][j]

\* A smoothed element was constructed over an outline that has a point.
SmoothedOutline == Smoothed /\ Len(result._points) > 0

LocalFrame(p, start, end) ==
    LET v   == SubPt(end, start)
        phi == ArcTan2(Y(v), X(v))
        d   == SubPt(to_point(p), start)
    IN  to_point(RotateShift(P(0, 0), RNeg(phi), X(d), Y(d)))

Locals(centres, start, end) ==
    {LocalFrame(centres[k], start, end) : k \in 1..Len(centres)}

\* The straight runs of a smoothed element: from its start to its first
\* bend, from bend to bend, and from its last bend to its end.
Runs(e) ==
    LET nb == Len(e.bends)
    IN  [k \in 1..(nb + 1) |->
            [start |-> IF k = 1 THEN Start(e) ELSE e.bends[k - 1][Len(e.bends[k - 1])],
             end   |-> IF k = nb + 1 THEN End(e) ELSE e.bends[k][1]]]

\* The mesh centres of the k-th straight run of the mesh element e, which
\* path_mesh lists run after run before those of the bends: those of a run
\* of length L are 2 * (2 * num_mesh_rows) * floor(L / mesh_spacing).
RunSize(e, k) ==
    4 * e.num_mesh_rows
      * RFloor(RDiv(Norm(SubPt(Runs(e)[k].end, Runs(e)[k].start)), e.mesh_spacing))

RECURSIVE RunsSize(_, _)
RunsSize(e, n) == IF n = 0 THEN 0 ELSE RunsSize(e, n - 1) + RunSize(e, n)

RunCentres(e, k) ==
    SubSeq(e.mesh_centers, RunsSize(e, k - 1) + 1, RunsSize(e, k))

\* A set of points in a local frame that holds (x, -y) with every (x, y).
Mirrored(locals) == \A p \in locals : Pt(X(p), RNeg(Y(p))) \in locals

PathMeshKinds == {"CPWMesh", "CPWBlankMesh"}

TrapezoidMeshKinds == {"CPWTransitionMesh", "CPWTransitionBlankMesh"}

\* A mesh element was constructed.
Meshed == call = "construct" /\ pc = "returned" /\ result.kind \in MeshKinds

\* C15: the mesh centres of every straight run of path_mesh, and those of
\* trapezoid_mesh, are in the frame of the run closed under y -> -y.
C15_Mirrored ==
    Meshed =>
        IF result.kind \in PathMeshKinds
        THEN \A k \in 1..Len(Runs(result)) :
                Mirrored(Locals(RunCentres(result, k),
                                Runs(result)[k].start, Runs(result)[k].end))
        ELSE Mirrored(Locals(result.mesh_centers, Start(result), End(result)))

\* C15, its case: a CPWMesh over (0,2), (0,0), a run down the y axis, has
\* centres on both sides of it, (3, 3/2) and (-3, 3/2) among them; and a
\* transition mesh from (0,0) to (2,0) has (1/2, 15/4) and (1/2, -15/4).
C15_BothSides ==
    /\ Meshed
    /\ \/ /\ result.kind = "CPWMesh"
          /\ result._points = <<P(0, 2), P(0, 0)>>
          /\ {Pt(I(3), Q(3, 2)), Pt(I(-3), Q(3, 2))}
                 \subseteq {to_point(result.mesh_centers[k]) : k \in 1..Len(result.mesh_centers)}
       \/ /\ result.kind = "CPWTransitionMesh"
          /\ result._points = <<P(0, 0), P(2, 0)>>
          /\ {Pt(Q(1, 2), Q(15, 4)), Pt(Q(1, 2), Q(-15, 4))}
                 \subseteq {to_point(result.mesh_centers[k]) : k \in 1..Len(result.mesh_centers)}

\* The columns of a run: the x of its mesh centres in its frame.
Columns(centres, start, end) == {X(p) : p \in Locals(centres, start, end)}

\* The columns xs of a run of length L meshed with the spacing s, of which
\* adjacent ones are step apart: none where L < s; one, at L/2, where
\* s <= L < 2s; floor(L/s) otherwise, the first at s/2 from the start and
\* the last at s/2 from the end.
Placed(xs, L, s, step) ==
    IF RLt(L, s) THEN xs = {}
    ELSE IF RLt(L, RMul(I(2), s)) THEN xs = {RDiv(L, I(2))}
    ELSE LET first == RDiv(s, I(2))
             last  == RSub(L, RDiv(s, I(2)))
         IN  /\ RLe(RMul(I(Cardinality(xs)), s), L)
             /\ RLt(L, RMul(I(Cardinality(xs) + 1), s))
             /\ first \in xs /\ last \in xs
             /\ \A x \in xs : RLe(first, x) /\ RLe(x, last)
             /\ \A x \in xs : x = last \/ RAdd(x, step) \in xs

SpacingStep(L, s, n) == s

EvenStep(L, s, n) == IF n < 2 THEN s ELSE RDiv(RSub(L, s), I(n - 1))

\* The columns of every straight run of the mesh element are placed, with
\* the even step for its length, spacing and number of columns, or with the
\* spacing as the step.
ColumnsPlaced(even) ==
    LET s == result.mesh_spacing
        placed(centres, start, end) ==
            LET L  == Norm(SubPt(end, start))
                xs == Columns(centres, start, end)
            IN  Placed(xs, L, s, IF even THEN EvenStep(L, s, Cardinality(xs))
                                 ELSE SpacingStep(L, s, Cardinality(xs)))
    IN  IF result.kind \in PathMeshKinds
        THEN \A k \in 1..Len(Runs(result)) :
                placed(RunCentres(result, k), Runs(result)[k].start, Runs(result)[k].end)
        ELSE placed(result.mesh_centers, Start(result), End(result))

\* C16 as stated: the columns of a straight run are placed as above, and
\* adjacent columns are mesh_spacing apart.
C16_SpacedBySpacing == Meshed => ColumnsPlaced(FALSE)

\* C16 amended: the columns of a straight run are placed as above, and
\* adjacent columns are (L - s) / (n - 1) apart for the n columns of a run
\* of length L: evenly spaced, and mesh_spacing apart where L = n * s.
C16_SpacedEvenly == Meshed => ColumnsPlaced(TRUE)

\* C16, its case: a CPWMesh over (0,0), (2,0) with mesh_spacing = 4/5 has its
\* floor(5/2) = 2 columns at 2/5 and 8/5, which are 6/5 apart.
C16_TwoColumns ==
    /\ Meshed /\ result.kind = "CPWMesh"
    /\ result._points = <<P(0, 0), P(2, 0)>>
    /\ result.mesh_spacing = Q(4, 5)
    /\ Columns(result.mesh_centers, P(0, 0), P(2, 0)) = {Q(2, 5), Q(8, 5)}

\* ------------------------------------------------------------------------
\* C17: draw leaves the element as it was
\* ------------------------------------------------------------------------
\* The element e has what the element f has: start, end, points, bends,
\* angles, corners, offsets, mesh centres and length, and no attribute that
\* f has not (such as the cell or the layers of a draw).
SameElement(e, f) ==
    /\ DOMAIN e = DOMAIN f
    /\ e._points = f._points
    /\ e.bends = f.bends /\ e.angles = f.angles
    /\ e.corners = f.corners /\ e.offsets = f.offsets
    /\ e.mesh_centers = f.mesh_centers
    /\ HasPoints(f) =>
          /\ Start(e) = Start(f) /\ End(e) = End(f)
          /\ Points(e) = Points(f)
          /\ Length(e) = Length(f)

\* The call is made with the arguments of the call before it.
SameArguments ==
    /\ call = "draw again"
    /\ input = [origin |-> origin0, layers |-> layers, round_tip |-> round_tip]

\* C17: after any calls of draw, and after Path.draw, every element is as
\* its constructor made it, with no attribute added; and a call of draw
\* with the arguments of the call before it makes the back-end calls that
\* that call made.
C17_Unchanged ==
    (call \in {"draw", "draw again", "Path.draw"}) =>
        /\ Len(elems) = Len(made)
        /\ \A k \in 1..Len(made) :
              /\ SameElement(elems[k], made[k])
              /\ DOMAIN elems[k] = DOMAIN NoElement
        /\ SameArguments =>
              drawn[Len(drawn)].calls = drawn[Len(drawn) - 1].calls

\* C17, its case: a CPWMesh was drawn twice at the array (10, 10) on the
\* layers 1, 2, 3; both calls made the same calls, circles among them, and
\* the element is as it was made.
C17_DrawnTwice ==
    /\ SameArguments /\ pc = "returned"
    /\ made[1].kind = "CPWMesh" /\ elems = made
    /\ origin0 = Array(P(10, 10)) /\ layers = <<1, 2, 3>>
    /\ Len(drawn) = 2
    /\ drawn[1].calls = drawn[2].calls
    /\ \E n \in 1..Len(drawn[2].calls) : drawn[2].calls[n].op = "add_circle"
    /\ calls = drawn[1].calls \o drawn[2].calls

\* ------------------------------------------------------------------------
\* C18: start, end, span and length of a Path
\* ------------------------------------------------------------------------
\* Path.draw returned from drawing a Path that is not empty.
PathDrawn == call = "Path.draw" /\ pc = "returned" /\ Len(made) > 0

\* The sum of the x and of the y of the ends of the elements.
SumOfEnds(path) ==
    LET xs == [k \in 1..Len(path) |-> X(End(path[k]))]
        ys == [k \in 1..Len(path) |-> Y(End(path[k]))]
        sum[n \in 0..Len(path)] ==
            IF n = 0 THEN <<Zero, Zero>>
            ELSE <<RAdd(sum[n - 1][1], xs[n]), RAdd(sum[n - 1][2], ys[n])>>
    IN  Pt(sum[Len(path)][1], sum[Len(path)][2])

\* The sum of the lengths of the elements: of their exact parts and of
\* their other terms.
SumOfLengths(path) ==
    LET exact[n \in 0..Len(path)] ==
            IF n = 0 THEN Zero ELSE RAdd(exact[n - 1], Length(path[n]).exact)
        terms[n \in 0..Len(path)] ==
            IF n = 0 THEN EmptyBag ELSE terms[n - 1] (+) Length(path[n]).terms
    IN  [exact |-> exact[Len(path)], terms |-> terms[Len(path)]]

\* C18: the length of a Path is the sum of the lengths of its elements, its
\* end the sum of their ends, its start the start of the first, its span
\* its end less its start; and the running origin of Path.draw, after the
\* last element, is the caller's origin plus the end of the Path.
C18_Aggregates ==
    PathDrawn =>
        /\ PathLength(elems) = SumOfLengths(elems)
        /\ PathEnd(elems) = SumOfEnds(elems)
        /\ PathStart(elems) = elems[1]._points[1]
        /\ AddPt(PathSpan(elems), PathStart(elems)) = PathEnd(elems)
        /\ point = AddPt(to_point(origin0), PathEnd(elems))

\* C18, its case: a Path of the Trace to the east by 100 and the CPWBlank
\* to the north by 50, drawn at (10, 10), has the length 150, the end and the
\* span (100, 50), and leaves the running origin at (110, 60).
C18_EastNorth ==
    /\ PathDrawn /\ Len(made) = 2
    /\ to_point(origin0) = P(10, 10)
    /\ made[1].kind = "Trace" /\ made[1]._points = <<P(0, 0), P(100, 0)>>
    /\ made[2].kind = "CPWBlank" /\ made[2]._points = <<P(0, 0), P(0, 50)>>
    /\ PathLength(elems).exact = I(150)
    /\ PathEnd(elems) = P(100, 50) /\ PathSpan(elems) = P(100, 50)
    /\ point = P(110, 60)

\* ------------------------------------------------------------------------
\* C19: conversion to database units
\* ------------------------------------------------------------------------
\* The numbers of a value: of an array its entries, of a scalar itself.
Numbers(v) == IF v.kind = "ndarray" THEN v.val ELSE <<v.val>>

\* An integer or an array of integers.
IsIntegral(v) ==
    /\ \/ v.kind \in {"int", "np.int"}
       \/ v.kind = "ndarray" /\ v.dtype = "int"
    /\ \A k \in 1..Len(Numbers(v)) : Numbers(v)[k][2] = 1

\* The integer n is a nearest integer to x.
IsNearest(n, x) == n[2] = 1 /\ RLe(RAbs(RSub(n, x)), Q(1, 2))

\* C19: to_database_units returns an integer for a scalar and an array of
\* integers for an array, each the nearest integer to the number given,
\* divided by user_unit when use_user_unit is True and as it is when False;
\* and given what from_database_units returned for integers it returns
\* those integers.
C19_Nearest ==
    (call = "to_database_units") =>
        LET d == input.drawing
            given == Numbers(input.value)
            x(k) == IF d.use_user_unit THEN RDiv(given[k], d.user_unit) ELSE given[k]
        IN  /\ IsIntegral(result)
            /\ (result.kind = "ndarray") = (input.value.kind = "ndarray")
            /\ Len(Numbers(result)) = Len(given)
            /\ \A k \in 1..Len(given) : IsNearest(Numbers(result)[k], x(k))
            /\ input.from # None => Numbers(result) = Numbers(input.from)

\* C19, its case: with the user unit 1/4, from_database_units(array of 2, -2,
\* 3) is the array of 1/2, -1/2, 3/4 and to_database_units of that is the
\* array of 2, -2, 3.
C19_RoundTrip ==
    /\ call = "to_database_units"
    /\ input.drawing = [use_user_unit |-> TRUE, user_unit |-> Q(1, 4)]
    /\ input.from = NdArray("int", <<I(2), I(-2), I(3)>>)
    /\ input.value = NdArray("float", <<Q(1, 2), Q(-1, 2), Q(3, 4)>>)
    /\ result = NdArray("int", <<I(2), I(-2), I(3)>>)

\* ------------------------------------------------------------------------
\* C20: auto-numbered cell names
\* ------------------------------------------------------------------------
\* No two cells of the drawing have one name.
PairwiseDistinct(names) ==
    \A m, n \in DOMAIN names : m # n => names[m] # names[n]

\* Every Drawing object taken from the Layout numbers its cells.
AllAutoNumbered == \A k \in DOMAIN drawings : drawings[k].auto_number

\* C20: with auto_number=True, after any sequence of add_cell calls the new
\* cell is named '<name>_<x>', x the number of cells created before it, the
\* cell names in the underlying drawing are pairwise distinct, and reading
\* the cells raises no duplicate-name error.
C20_Unique ==
    AllAutoNumbered =>
        /\ call = "add_cell" =>
              result = Format(input.name, drawings[input.self].cell_number - 1)
        /\ PairwiseDistinct(cellNames)
        /\ call = "cells" => err = ""

\* The names are pairwise distinct when every cell of the drawing was added
\* through one auto-numbering Drawing object.
UniqueFromOneDrawing ==
    Len(drawings) = 1 /\ AllAutoNumbered =>
        /\ PairwiseDistinct(cellNames)
        /\ call = "cells" => err = ""

\* Two auto-numbering Drawing objects of one Layout have each added a cell
\* named "a": both cells are named "a_0".
TwoDrawingsOneName ==
    /\ call = "add_cell"
    /\ AllAutoNumbered
    /\ cellNames = <<"a_0", "a_0">>

\* ------------------------------------------------------------------------
\* C21: duplicate cell names are surfaced by Drawing.cells
\* ------------------------------------------------------------------------
\* C21: reading Drawing.cells raises RuntimeError whenever two cells of the
\* underlying drawing have one name; otherwise it returns a mapping with
\* exactly one entry per cell of the linked list, in list order, keyed by
\* the name of the cell.
C21_Surfaced ==
    call = "cells" =>
        IF PairwiseDistinct(cellNames)
        THEN /\ pc = "returned"
             /\ err = ""
             /\ Len(result) = Len(cellNames)
             /\ \A n \in DOMAIN cellNames :
                   result[n] = [key |-> cellNames[n], value |-> n]
        ELSE /\ pc = "raised"
             /\ err = "RuntimeError"

\* Drawing.cells has been read on a drawing with two cells named "a".
C21_TwoNamedA ==
    /\ call = "cells"
    /\ cellNames = <<"a", "a">>
    /\ err = "RuntimeError"

\* Drawing.cells has returned the dictionary of three cells.
ThreeCellsRead ==
    /\ call = "cells"
    /\ Len(cellNames) = 3
    /\ err = ""

\* ------------------------------------------------------------------------
\* C22: Trace.draw
\* ------------------------------------------------------------------------
\* The element drawn by the k-th draw.
ElementOf(k) == IF call = "Path.draw" THEN made[k] ELSE made[1]

\* The draws, made with the layers of the last call, of a Trace whose
\* outline has two points or more.
TraceDraws ==
    IF call \in {"draw", "draw again", "Path.draw"}
    THEN {k \in DOMAIN drawn :
             /\ call = "draw again" => k = Len(drawn)
             /\ ElementOf(k).kind = "Trace"
             /\ Len(ElementOf(k)._points) >= 2}
    ELSE {}

\* The point at distance overlap from the point at, in the direction from
\* the point next towards at.
Beyond(at, next, overlap) ==
    LET v == SubPt(at, next)
    IN  Pt(RAdd(X(at), RDiv(RMul(overlap, X(v)), Norm(v))),
           RAdd(Y(at), RDiv(RMul(overlap, Y(v)), Norm(v))))

\* The calls of the k-th draw are add_path calls on result_layer: one for
\* the translated points, then one of two points for each overlap that is
\* positive, from the first (last) rendered point by the overlap in the
\* direction given by the points before and behind: before(e) are the two
\* points that direct the start overlap, behind(e) those of the end overlap.
TraceCalls(k, before, behind) ==
    LET e       == ElementOf(k)
        c       == drawn[k].calls
        o       == to_point(drawn[k].origin)
        points  == Translated(o, e)
        n       == Len(points)
        atStart == RLt(Zero, e.start_overlap)
        atEnd   == RLt(Zero, e.end_overlap)
    IN  /\ Len(c) = 1 + (IF atStart THEN 1 ELSE 0) + (IF atEnd THEN 1 ELSE 0)
        /\ \A m \in DOMAIN c :
              /\ c[m].op = "add_path"
              /\ c[m].layer = layers[3]
              /\ c[m].width = e.width
        /\ c[1].points = points
        /\ atStart =>
              c[2].points = <<points[1], Beyond(points[1], AddPt(o, before[2]), e.start_overlap)>>
        /\ atEnd =>
              c[Len(c)].points = <<points[n], Beyond(points[n], AddPt(o, behind[1]), e.end_overlap)>>

\* C22 as stated: Trace.draw makes only add_path calls on result_layer, one
\* for the translated points and one two-point path for each positive
\* overlap, which starts at the first (last) rendered point, has the length
\* of the overlap and continues the adjacent segment of the original
\* outline away from the trace.
C22_AlongOutline ==
    \A k \in TraceDraws :
        LET outline == ElementOf(k)._points
            n       == Len(outline)
        IN  TraceCalls(k, <<outline[1], outline[2]>>, <<outline[n - 1], outline[n]>>)

\* C22: Trace.draw makes only add_path calls on result_layer, one for the
\* translated points and one two-point path for each positive overlap,
\* which starts at the first (last) rendered point, has the length of the
\* overlap and continues the adjacent segment of the rendered points, from
\* the second (last but one) rendered point to the first (last); that is
\* the direction of the outline segment when the first and last arcs fit
\* on their segments.
C22_AlongRendered ==
    \A k \in TraceDraws :
        LET points == Points(ElementOf(k))
            n      == Len(points)
        IN  TraceCalls(k, <<points[1], points[2]>>, <<points[n - 1], points[n]>>)

\* C22, its case: the Trace of width 2 over (0, 0), (2, 0), (2, 2), whose
\* radius 4 is longer than its segments, was drawn at the array (10, 10)
\* with both overlaps 1; the start overlap runs from (10, 10) to (11, 10),
\* along the trace, and the end overlap from (12, 12) to (12, 11).
C22_ShortTurn ==
    /\ call = "draw" /\ pc = "returned"
    /\ made[1].kind = "Trace"
    /\ made[1]._points = to_point_list(ShortTurn)
    /\ drawn[1].origin = Array(P(10, 10))
    /\ Len(drawn[1].calls) = 3
    /\ drawn[1].calls[2].points = <<P(10, 10), P(11, 10)>>
    /\ drawn[1].calls[3].points = <<P(12, 12), P(12, 11)>>

\* ------------------------------------------------------------------------
\* C23: CPWTransition.draw
\* ------------------------------------------------------------------------
\* The draws, made with the layers of the last call, of an element of the
\* kind whose two points differ.
DrawsOf(kind) ==
    IF call \in {"draw", "draw again", "Path.draw"}
    THEN {k \in DOMAIN drawn :
             /\ call = "draw again" => k = Len(drawn)
             /\ ElementOf(k).kind = kind
             /\ Start(ElementOf(k)) # End(ElementOf(k))}
    ELSE {}

\* The point (x, y) of the local frame of the element, whose x axis runs
\* from its start to its end, translated by the origin o and the start.
FromFrame(e, o, x, y) ==
    LET v == SubPt(End(e), Start(e))
        L == Norm(v)
    IN  Pt(RAdd(RAdd(X(o), X(Start(e))),
                RSub(RDiv(RMul(x, X(v)), L), RDiv(RMul(y, Y(v)), L))),
           RAdd(RAdd(Y(o), Y(Start(e))),
                RAdd(RDiv(RMul(x, Y(v)), L), RDiv(RMul(y, X(v)), L))))

\* The segments from a to b and from c to d cross at a point inside both.
Crosses(a, b, c, d) ==
    /\ RSign(Cross(SubPt(b, a), SubPt(c, a))) * RSign(Cross(SubPt(b, a), SubPt(d, a))) < 0
    /\ RSign(Cross(SubPt(d, c), SubPt(a, c))) * RSign(Cross(SubPt(d, c), SubPt(b, c))) < 0

\* No two opposite sides of the four-vertex polygon cross.
Simple(poly) ==
    /\ ~Crosses(poly[1], poly[2], poly[3], poly[4])
    /\ ~Crosses(poly[2], poly[3], poly[4], poly[1])

\* The polygon of the taper on the side (1 for the upper, -1 for the lower).
Taper(e, o, side) ==
    LET L  == Norm(SubPt(End(e), Start(e)))
        ws == RDiv(e.start_width, I(2))
        we == RDiv(e.end_width, I(2))
    IN  <<FromFrame(e, o, Zero, RMul(I(side), ws)),
          FromFrame(e, o, Zero, RMul(I(side), RAdd(ws, e.start_gap))),
          FromFrame(e, o, L, RMul(I(side), RAdd(we, e.end_gap))),
          FromFrame(e, o, L, RMul(I(side), we))>>

\* C23: CPWTransition.draw makes exactly two add_polygon calls on
\* result_layer and no subtract: the upper polygon is (0, w_s/2),
\* (0, w_s/2 + g_s), (L, w_e/2 + g_e), (L, w_e/2) in the frame of the
\* segment, L its length, the lower polygon is its mirror image in y,
\* neither crosses itself, and both are rotated to the direction of the
\* segment and translated by origin + start.
C23_TwoPolygons ==
    \A k \in DrawsOf("CPWTransition") :
        LET e == ElementOf(k)
            c == drawn[k].calls
            o == to_point(drawn[k].origin)
        IN  /\ Len(c) = 2
            /\ \A m \in DOMAIN c :
                  /\ c[m].op = "add_polygon"
                  /\ c[m].layer = layers[3]
                  /\ Len(c[m].points) = 4
                  /\ Simple(c[m].points)
            /\ c[1].points = Taper(e, o, 1)
            /\ c[2].points = Taper(e, o, -1)

\* C23, its case: the transition from (1, 1) to (4, 1), of widths 4 and 1
\* and gaps 0 and 1, was drawn at the list [10, 10]: the upper polygon is
\* (11, 13), (11, 13), (14, 12.5), (14, 11.5).
C23_Narrowing ==
    /\ call = "draw" /\ pc = "returned"
    /\ made[1].kind = "CPWTransition"
    /\ drawn[1].origin = List(I(10), I(10))
    /\ drawn[1].calls[1].points =
          <<P(11, 13), P(11, 13), Pt(I(14), Q(25, 2)), Pt(I(14), Q(23, 2))>>

\* ------------------------------------------------------------------------
\* C24: trapezoid_mesh
\* ------------------------------------------------------------------------
\* A transition mesh was constructed.
TrapezoidMeshed == Meshed /\ result.kind \in TrapezoidMeshKinds

\* width / 2 + gap + mesh_border at the start and at the end of a transition.
DStart(e) == RAdd(RAdd(RDiv(e.start_width, I(2)), e.start_gap), e.start_mesh_border)

DEnd(e) == RAdd(RAdd(RDiv(e.end_width, I(2)), e.end_gap), e.end_mesh_border)

\* The offset from the centre line of row k (from 0) at the column x of a
\* transition of length L.
RowOffset(e, L, x, k) ==
    RAdd(RAdd(DStart(e), RDiv(RMul(RSub(DEnd(e), DStart(e)), x), L)),
         RMul(I(k), e.mesh_spacing))

\* C24: trapezoid_mesh returns no centre for a transition shorter than the
\* mesh spacing; otherwise it returns exactly 2 * columns * num_mesh_rows
\* centres, and in the frame of the transition the centres are, at every
\* column x and for every row k, the two points with
\* |y| = d_start + (d_end - d_start) * x / L + k * mesh_spacing.
C24_Linear ==
    TrapezoidMeshed =>
        LET e      == result
            L      == Norm(SubPt(End(e), Start(e)))
            locals == Locals(e.mesh_centers, Start(e), End(e))
            xs     == Columns(e.mesh_centers, Start(e), End(e))
        IN  IF RLt(L, e.mesh_spacing)
            THEN e.mesh_centers = <<>>
            ELSE /\ Cardinality(xs) = RFloor(RDiv(L, e.mesh_spacing))
                 /\ Len(e.mesh_centers) = 2 * Cardinality(xs) * e.num_mesh_rows
                 /\ locals = UNION {{Pt(x, RowOffset(e, L, x, k)),
                                     Pt(x, RNeg(RowOffset(e, L, x, k)))} :
                                       x \in xs, k \in 0..(e.num_mesh_rows - 1)}
                 /\ Cardinality(locals) = Len(e.mesh_centers)

\* C24, its case: the transition mesh from (0, 0) to (2, 0) with the spacing
\* 1 has two columns of two rows on each side, eight centres, the one of
\* row 1 at the column 3/2 at y = 3 + 3 * (3/2) / 2 + 1 = 25/4.
C24_EightCentres ==
    /\ TrapezoidMeshed
    /\ result._points = <<P(0, 0), P(2, 0)>>
    /\ result.mesh_spacing = I(1)
    /\ Len(result.mesh_centers) = 8
    /\ Pt(Q(3, 2), Q(25, 4)) \in {to_point(result.mesh_centers[k]) : k \in 1..8}

\* A transition mesh shorter than its spacing, not of length 0, has no centre.
ShorterThanSpacing ==
    /\ TrapezoidMeshed
    /\ result._points = <<P(0, 0), P(0, 1)>>
    /\ result.mesh_spacing = Q(3, 2)
    /\ result.mesh_centers = <<>>

\* ------------------------------------------------------------------------
\* C25: the curved sections of path_mesh
\* ------------------------------------------------------------------------
\* The point p is at the radius from the centre.
AtRadius(p, centre, radius) ==
    IF p.r = Zero THEN Norm(SubPt(p, centre)) = radius
    ELSE p.c = centre.c /\ p.r = radius

\* The angle, in units of pi, at which the point p is seen from the centre.
PhiOf(p, centre) ==
    IF p.r = Zero
    THEN NormAngle(ArcTan2(Y(SubPt(p, centre)), X(SubPt(p, centre))))
    ELSE p.phi

\* The centres of the group are n points at the radius from the centre,
\* the j-th and the j-th from the end at opposite angles from the bisector,
\* and a single one is on the bisector.
ArcGroup(group, centre, radius, bisector, n) ==
    /\ Len(group) = n
    /\ \A j \in 1..Len(group) :
          /\ AtRadius(to_point(group[j]), centre, radius)
          /\ NormAngle(RSub(PhiOf(to_point(group[j]), centre), bisector))
               = NormAngle(RSub(bisector, PhiOf(to_point(group[Len(group) + 1 - j]), centre)))
    /\ Len(group) = 1 => PhiOf(to_point(group[1]), centre) = NormAngle(bisector)

\* round(radius * |angle| / mesh_spacing), the angle in units of pi.
NumPoints(radius, angle, mesh_spacing) ==
    RoundPi(RDiv(RMul(radius, RAbs(angle)), mesh_spacing))

\* The direction from the centre of an arc to its corner.
Bisector(offset) == ArcTan2(RNeg(Y(offset)), RNeg(X(offset)))

\* The groups of the curved sections of a mesh element, in the order of
\* path_mesh: for each row, the radius inside and the radius outside, and
\* for each of the two every bend.  The radius of the group g:
GroupRadius(e, g) ==
    LET nb  == Len(e.bends)
        row == (g - 1) \div (2 * nb)
        d   == RAdd(RAdd(RAdd(RDiv(e.width, I(2)), e.gap), e.mesh_border),
                    RMul(I(row), e.mesh_spacing))
    IN  IF ((g - 1) \div nb) % 2 = 0 THEN RSub(e.radius, d) ELSE RAdd(e.radius, d)

GroupBend(e, g) == ((g - 1) % Len(e.bends)) + 1

GroupSize(e, g) ==
    IF RLt(GroupRadius(e, g), RDiv(e.mesh_spacing, I(2))) THEN 0
    ELSE NumPoints(GroupRadius(e, g), e.angles[GroupBend(e, g)], e.mesh_spacing)

RECURSIVE GroupsSize(_, _)
GroupsSize(e, g) == IF g = 0 THEN 0 ELSE GroupsSize(e, g - 1) + GroupSize(e, g)

\* The centres of the curved sections: those after the straight runs.
Curved(e) ==
    SubSeq(e.mesh_centers, RunsSize(e, Len(e.bends) + 1) + 1, Len(e.mesh_centers))

\* A CPWMesh or CPWBlankMesh was constructed.
PathMeshed == Meshed /\ result.kind \in PathMeshKinds

\* C25: in the curved sections of path_mesh each row, each of the radii
\* inside and outside that is at least mesh_spacing / 2, and each bend give
\* exactly n = round(radius * |angle| / mesh_spacing) centres, all at that
\* radius from corner + offset and symmetric about the bisector; one centre
\* is on the bisector, n = 0 gives none and no error, and a radius below
\* mesh_spacing / 2 gives none.
C25_Curved ==
    /\ PathMeshed =>
          LET e  == result
              ng == 2 * e.num_mesh_rows * Len(e.bends)
          IN  /\ Len(Curved(e)) = GroupsSize(e, ng)
              /\ \A g \in 1..ng :
                    ArcGroup(SubSeq(Curved(e), GroupsSize(e, g - 1) + 1, GroupsSize(e, g)),
                             AddPt(e.corners[GroupBend(e, g)], e.offsets[GroupBend(e, g)]),
                             GroupRadius(e, g),
                             Bisector(e.offsets[GroupBend(e, g)]),
                             GroupSize(e, g))
    /\ call = "path_mesh: curved section" =>
          /\ pc = "returned"
          /\ ArcGroup(result, AddPt(input.corner, input.offset), input.radius,
                      Bisector(input.offset),
                      NumPoints(input.radius, input.angle, input.mesh_spacing))

\* C25, its case: the CPWMesh of radius 7/2 and spacing 1 over (0, 0),
\* (2, 0), (2, 2) has, for its first row, one centre inside the arc, at the
\* radius 1/2 from the arc centre (-3/2, 7/2) on the bisector, and
\* round(13/2 * pi/2) = 10 outside; the second row has none inside.
C25_OneInside ==
    /\ PathMeshed
    /\ result._points = <<P(0, 0), P(2, 0), P(2, 2)>>
    /\ result.radius = Q(7, 2) /\ result.mesh_spacing = I(1)
    /\ GroupSize(result, 1) = 1 /\ GroupSize(result, 2) = 10
    /\ GroupSize(result, 3) = 0
    /\ to_point(Curved(result)[1]) = [c |-> <<Q(-3, 2), Q(7, 2)>>, r |-> Q(1, 2), phi |-> Q(7, 4)]

\* A bend of pi/4 meshed at the radius 3/5 with the spacing 1:
\* round(0.47) = 0 centres, and the call returns.
NoCentre ==
    /\ call = "path_mesh: curved section"
    /\ input.radius = Q(3, 5) /\ input.angle = Q(1, 4)
    /\ result = <<>>

\* ------------------------------------------------------------------------
\* C27: the mesh centres of a straight run
\* ------------------------------------------------------------------------
\* C27: the mesh centres that path_mesh computes for a straight run with c
\* columns and num_mesh_rows rows are 2 * c * num_mesh_rows centres, no
\* point among them repeated.
C27_NoRepeat ==
    PathMeshed =>
        \A k \in 1..Len(Runs(result)) :
            LET centres == RunCentres(result, k)
                c       == Cardinality(Columns(centres, Runs(result)[k].start,
                                               Runs(result)[k].end))
            IN  /\ Len(centres) = 2 * c * result.num_mesh_rows
                /\ \A m, n \in DOMAIN centres : m # n => centres[m] # centres[n]

\* The mesh centres of a straight run with c columns are a list of
\* 4 * c * num_mesh_rows points, 2 * c * num_mesh_rows of them different.
EachCentreTwice ==
    PathMeshed =>
        \A k \in 1..Len(Runs(result)) :
            LET centres == RunCentres(result, k)
                c       == Cardinality(Columns(centres, Runs(result)[k].start,
                                               Runs(result)[k].end))
            IN  /\ Len(centres) = 4 * c * result.num_mesh_rows
                /\ Cardinality({centres[m] : m \in DOMAIN centres})
                     = 2 * c * result.num_mesh_rows

\* ------------------------------------------------------------------------
\* C28: a draw that raises
\* ------------------------------------------------------------------------
\* C28: when the draw of an elbow coupler raises NotImplementedError
\* (round_tip=False) no back-end call has been made, and the layers of the
\* cell are as they were before the call.
C28_Untouched ==
    (call = "draw" /\ made[1].kind \in ElbowKinds /\ err = "NotImplementedError") =>
        /\ calls = <<>>
        /\ shapes = EmptyCell

\* When the draw of an elbow coupler raises NotImplementedError its paths
\* have been added: two, on the negative and the positive layer, by
\* CPWElbowCoupler, one on the result layer by CPWElbowCouplerBlank.
PathsLeft ==
    (call = "draw" /\ made[1].kind \in ElbowKinds /\ err = "NotImplementedError") =>
        /\ Len(calls) = IF made[1].kind = "CPWElbowCoupler" THEN 2 ELSE 1
        /\ \A k \in DOMAIN calls : calls[k].op = "add_path"
        /\ shapes # EmptyCell

\* ------------------------------------------------------------------------
\* C26: renaming a cell
\* ------------------------------------------------------------------------
\* Cell.name was set, in wrapper.py or in interface.py, to a str.
Renamed ==
    /\ call \in {"Cell.name", "interface.Cell.name"}
    /\ input.name.kind = "str"

\* The outcome of the setter: ValueError and no name changed when another
\* cell than the k-th has the name; no error and the name set when the name
\* is that of the k-th cell or of no cell.
RejectedWhenTaken ==
    LET before == input.names
        k      == input.self
        name   == input.name.val
    IN  /\ (\E j \in DOMAIN before : j # k /\ before[j] = name) =>
              /\ pc = "raised" /\ err = "ValueError"
              /\ cellNames = before
        /\ (before[k] = name \/ \A j \in DOMAIN before : before[j] # name) =>
              /\ pc = "returned" /\ err = ""
              /\ cellNames = [before EXCEPT ![k] = name]

\* C26 as stated: setting Cell.name to a name that a different cell has
\* raises ValueError and leaves every name unchanged; setting it to the
\* cell's own name or to an unused name succeeds.
C26_Rejected == Renamed => RejectedWhenTaken

\* C26: on a drawing whose cell names are pairwise distinct, setting
\* Cell.name to a name that a different cell has raises ValueError and
\* leaves every name unchanged, and setting it to the cell's own name or to
\* an unused name succeeds; on a drawing in which two cells have one name,
\* the setter of wrapper.py raises RuntimeError for every name but the
\* cell's own and leaves every name unchanged.
C26_RejectedWhenDistinct ==
    Renamed =>
        /\ PairwiseDistinct(input.names) => RejectedWhenTaken
        /\ (/\ call = "Cell.name"
            /\ ~PairwiseDistinct(input.names)
            /\ input.name.val # input.names[input.self]) =>
              /\ pc = "raised" /\ err = "RuntimeError"
              /\ cellNames = input.names

\* C26, its case: in wrapper.py the cell "b", first of the cells "b", "a",
\* was given the name "a": ValueError, and the names are as they were.
C26_Taken ==
    /\ call = "Cell.name"
    /\ input.names = <<"b", "a">> /\ input.self = 1 /\ input.name = Str("a")
    /\ err = "ValueError"
    /\ cellNames = <<"b", "a">>

\* In wrapper.py the first of two cells named "a" was given the unused
\* name "b": RuntimeError.
UnusedRefused ==
    /\ call = "Cell.name"
    /\ input.names = <<"a", "a">> /\ input.self = 1 /\ input.name = Str("b")
    /\ err = "RuntimeError"

\* ------------------------------------------------------------------------
\* C29: interface.py, the names of the cells of a drawing
\* ------------------------------------------------------------------------
\* Drawing.add_cell(name) was called with None or with ''.
AddedUnnamed ==
    /\ call = "interface.add_cell"
    /\ (input.name = None \/ input.name = Str(""))

\* The call returned a cell named noname_n, 1 <= n <= number of cells + 1,
\* a name no cell had, and that cell was added.
AssignedNoname ==
    /\ pc = "returned"
    /\ \E n \in 1..(Len(input.names) + 1) :
          /\ result = Format("noname", n)
          /\ \A j \in DOMAIN input.names : input.names[j] # result
    /\ cellNames = <<result>> \o input.names

\* C29 as stated: in interface.py, from a drawing with distinct cell names,
\* after every Drawing.add_cell(name) and every assignment to Cell.name the
\* cell names are pairwise distinct; add_cell with an existing name raises
\* ValueError and adds no cell; add_cell with None or '' returns a cell
\* with an unused name noname_n, 1 <= n <= number of cells + 1.
C29_Unique ==
    call \in InterfaceCalls =>
        /\ PairwiseDistinct(cellNames)
        /\ (call = "interface.add_cell" /\ In(input.name, interface_cells(input.names).value)) =>
              /\ pc = "raised" /\ err = "ValueError"
              /\ cellNames = input.names
        /\ AddedUnnamed => AssignedNoname

\* In interface.py, as long as every name assigned is a str, the cell names
\* stay pairwise distinct.
UniqueWhenStr ==
    (/\ call \in {"interface.add_cell", "interface.Cell.name"}
     /\ PairwiseDistinct(input.names)
     /\ input.name # PyInt(5)) =>
        PairwiseDistinct(cellNames)

\* In interface.py add_cell with None or '' returns a cell with an unused
\* name noname_n unless a cell is named ''.
NonameUnlessEmptyName ==
    (AddedUnnamed /\ ~In(input.name, interface_cells(input.names).value)) => AssignedNoname

\* Cell.name = 5 was accepted on a drawing that has a cell named '5', and
\* two cells are named '5'.
TwoCellsNamedFive ==
    /\ call = "interface.Cell.name"
    /\ input.name = PyInt(5)
    /\ PairwiseDistinct(input.names)
    /\ pc = "returned"
    /\ ~PairwiseDistinct(cellNames)

\* add_cell('') raised ValueError on a drawing that has a cell named ''.
EmptyNameRefused ==
    /\ AddedUnnamed
    /\ PairwiseDistinct(input.names)
    /\ pc = "raised" /\ err = "ValueError"

\* ------------------------------------------------------------------------
\* C30: interactive.py, the windows of a layoutWindow
\* ------------------------------------------------------------------------
\* openLayout has returned: called by itself, by __init__ for a layout
\* window, or by pythonMacro after an exception.
OpenLayoutReturned ==
    \/ call = "openLayout"
    \/ call = "layoutWindow" /\ input.windowType \notin {"schematic", "text"}
    \/ call = "pythonMacro" /\ input.raises

\* C30: while layoutClose is False self.l is a layout, and while
\* schematicClose is False self.s is a schematic; openLayout on a
\* layoutWindow whose layout is open changes nothing and obtains no further
\* layout; project.defaultGui is True whenever openLayout has returned;
\* after an exception in pythonMacro the layout is open and the message was
\* shown on it.
C30_Windows ==
    call \in WindowCalls =>
        /\ result.self.layoutClose = FALSE => result.self.l \in DOMAIN result.self.layouts
        /\ result.self.schematicClose = FALSE =>
              result.self.s \in DOMAIN result.self.schematics
        /\ (call = "openLayout" /\ input.self.layoutClose = FALSE) =>
              result.self = input.self
        /\ OpenLayoutReturned => result.self.defaultGui = TRUE
        /\ (call = "pythonMacro" /\ input.raises) =>
              /\ pc = "returned"
              /\ result.self.layoutClose = FALSE
              /\ result.shown = result.self.l
              /\ result.shown \in DOMAIN result.self.layouts

\* C30, its case: the code of a macro raised after the only layout had been
\* closed: a second layout was opened and the message was shown on it.
C30_Reopened ==
    /\ call = "pythonMacro" /\ input.raises
    /\ input.self.layoutClose = TRUE
    /\ Len(input.self.layouts) = 1
    /\ Len(result.self.layouts) = 2
    /\ result.shown = 2

\* openLayout("layoutPure") was called while the layout was open: there is
\* still one layout, made with the default GUI.
StillOneLayout ==
    /\ call = "openLayout" /\ input.windowType = "layoutPure"
    /\ input.self.layoutClose = FALSE
    /\ result.self.layouts = <<[from |-> 0, defaultGui |-> TRUE, setup |-> ""]>>

\* A layoutWindow made for a schematic, project.defaultGui being False: no
\* layout, and project.defaultGui is as it was.
SchematicOnly ==
    /\ call \in WindowCalls
    /\ result.self.l = 0 /\ result.self.schematicClose = FALSE
    /\ result.self.defaultGui = FALSE

====
